---- MODULE Spec2Model ----
(***************************************************************************)
(* A model of libradicl (src/libradicl/src/lib.rs): the BarcodeLookupMap   *)
(* (construction, exact and one-mismatch search) and the collation engine  *)
(* (two-pass bucket collator, single-bucket collator with dump_chunk,      *)
(* process_corrected_cb_chunk).                                            *)
(*                                                                         *)
(* Indices are the code's 0-based indices throughout; a Rust Vec v is the  *)
(* TLA+ sequence whose element v[i] is at position i + 1.  Option<usize>   *)
(* is a sequence of length at most one: None is << >>, Some(i) is <<i>>.   *)
(***************************************************************************)
EXTENDS Integers, Sequences, FiniteSets, TLC

VARIABLES
    \* ---- BarcodeLookupMap ----
    mpc,        \* "input": the permit list is being read; "built": after new;
                \* "answered": after one query
    bclen,      \* BarcodeLookupMap.bclen
    kv,         \* the permit list, until BarcodeLookupMap::new takes it
    permit,     \* the set of barcodes that were in the permit list given to new
    barcodes,   \* BarcodeLookupMap.barcodes
    offsets,    \* BarcodeLookupMap.offsets, a function on 0 .. 4^prefix_len
    res         \* the last query and what it returned

VARIABLES
    \* ---- the collators ----
    cpc,            \* where the collation is: "input" (the file is being
                    \* written); "pass1", "pass2", "done" (two-pass collator);
                    \* "collate" (collate_temporary_bucket and the dumps);
                    \* "process" (process_corrected_cb_chunk)
    bct, umit,      \* RadIntId of the barcode and of the UMI
    input,          \* the bytes of the temporary bucket file
    recs,           \* the records appended to the file, in order: [bc, na, bytes]
    reader,         \* BufReader over the file: [buf, pos], buf the bytes read
                    \* ahead and not yet consumed, pos the position of the file
    k,              \* records handled so far by the running loop
    cb_byte_map,    \* HashMap<u64, TempCellInfo>: barcode -> [offset, nbytes, nrec]
    total_bytes,    \* total_bytes of collate_temporary_bucket_twopass
    output_buffer,  \* Cursor<Vec<u8>>: [data, pos]
    layout,         \* the order in which cb_byte_map.iter_mut() visited the cells
    lastw,          \* the last record write of pass 2: [bc, from, to]
    output_cache,   \* corrected barcode -> CorrectedCbChunk:
                    \* [remaining_records, corrected_bc, nrec, data], data a
                    \* Cursor<Vec<u8>>
    dumped,         \* the cells of output_cache the caller has dumped
    correct_map,    \* HashMap<u64, u64>: observed barcode -> corrected barcode
    expected_ori,   \* Strand: "Forward", "Reverse" or "Unknown"
    chunk_nrec,     \* nrec of the header of the chunk being processed
    owriter         \* the writes that reached the output writer, in order:
                    \* [framed, bytes]

VARIABLES
    \* ---- the temp-bucket sharder ----
    threads,        \* producer thread -> its call of
                    \* dump_corrected_cb_chunk_to_temp_file: [pc, file, recs,
                    \* rd, nrec, done, bufs, pend]; file the bytes behind its
                    \* reader, recs the records of the chunk as <<bc, na>>,
                    \* bufs its local_buffers (bucket id -> the bytes before
                    \* the cursor's position), pend the record being appended
    buckets,        \* bucket id -> TempBucket: [file, lock, num_records_written,
                    \* num_bytes_written]; file the bytes written to
                    \* bucket_writer, lock the thread that holds its mutex or 0
    bucket_of,      \* the sharder's output_cache: corrected barcode -> bucket id
    flush_limit     \* flush_limit of the sharder

VARIABLES
    \* ---- workers that share the output writer ----
    workers,        \* worker -> its call: [pc, ...]
    ecache,         \* the shared DashMap<u64, CorrectedCbChunk>
    wmutex,         \* the worker that holds the mutex of the output writer, or 0
    wout,           \* the bytes that reached the shared output writer
    emitted         \* the emissions in the order of their locked writes:
                    \* [worker, bytes]

VARIABLES
    \* ---- the record and header codecs ----
    call            \* the last call of a codec function: [fn, arg, ret]

shardvars == <<threads, buckets, bucket_of, flush_limit>>
emitvars == <<workers, ecache, wmutex, wout, emitted>>
codecvars == <<call>>

colvars == <<cpc, bct, umit, input, recs, reader, k, cb_byte_map, total_bytes,
             output_buffer, layout, lastw, output_cache, dumped, correct_map,
             expected_ori, chunk_nrec, owriter>>

\* what collate_temporary_bucket_twopass works on
twopassvars == <<cb_byte_map, total_bytes, output_buffer, layout, lastw>>
\* what collate_temporary_bucket and process_corrected_cb_chunk work on
cachevars == <<output_cache, dumped, correct_map, expected_ori, chunk_nrec>>

mapvars == <<mpc, bclen, kv, permit, barcodes, offsets, res>>

\* the state outside the lookup map and the collators
othervars == <<shardvars, emitvars, codecvars>>

vars == <<mapvars, colvars, othervars>>

\* ------------------------------------------------------------------------
\* Bounds of the model
\* ------------------------------------------------------------------------

\* barcode lengths 1 .. MaxBclen are explored
MaxBclen == 3
\* a permit list holds at most MaxPermitNucl nucleotides in total
\* (Len(kv) * bclen), the size of the permit-list file
MaxPermitNucl == 6
\* a temporary bucket file holds at most MaxRecs records
MaxRecs == 3
\* and at most MaxAln alignment entries in total
MaxAln == 2
\* the barcodes of the records of a temporary bucket file
CellBarcodes == {1, 2}
\* a chunk given to the sharder holds at most MaxShardRecs records
MaxShardRecs == 2
\* and at most MaxShardAln alignment entries in total
MaxShardAln == 3
\* with two producer threads, each chunk holds at most MaxConcRecs records
MaxConcRecs == 2
\* with two workers sharing the output writer, each chunk or bucket file
\* holds at most MaxEmitRecs records
MaxEmitRecs == 2
\* the largest number of alignment entries of a wire record handed to a
\* record decoder
MaxCodecAln == 3
\* a RadHeader holds at most MaxNames reference names, a TagSection at most
\* MaxTags tags, a Chunk at most MaxChunkRecs records of at most MaxChunkAln
\* alignments
MaxNames == 2
MaxTags == 2
MaxChunkRecs == 2
MaxChunkAln == 2

\* ------------------------------------------------------------------------
\* Integer helpers (u64 / usize arithmetic on values far below 2^31)
\* ------------------------------------------------------------------------

RECURSIVE Pow(_, _)
Pow(b, e) == IF e = 0 THEN 1 ELSE b * Pow(b, e - 1)

\* v >> sh
Shr(v, sh) == v \div Pow(2, sh)

\* v << sh (no wrap: every shifted value of the model fits its width)
Shl(v, sh) == v * Pow(2, sh)

\* a & b
RECURSIVE BitAnd(_, _)
BitAnd(a, b) ==
    IF a = 0 \/ b = 0 THEN 0
    ELSE (a % 2) * (b % 2) + 2 * BitAnd(a \div 2, b \div 2)

\* ------------------------------------------------------------------------
\* BarcodeLookupMap::new
\* ------------------------------------------------------------------------

prefix_len(bl) == (bl + 1) \div 2
suffix_len(bl) == bl - prefix_len(bl)
prefix_bits(bl) == 2 * prefix_len(bl)
suffix_bits(bl) == 2 * suffix_len(bl)

\* the 2-bit encoded k-mers of length bl
Kmers(bl) == 0 .. (Pow(4, bl) - 1)

\* kv.sort_unstable(): insertion of x into an ascending sequence
RECURSIVE InsertSorted(_, _)
InsertSorted(s, x) ==
    IF s = << >> THEN <<x>>
    ELSE IF x <= Head(s) THEN <<x>> \o s
    ELSE <<Head(s)>> \o InsertSorted(Tail(s), x)

RECURSIVE SortUnstable(_)
SortUnstable(s) ==
    IF s = << >> THEN << >> ELSE InsertSorted(SortUnstable(Tail(s)), Head(s))

pref_mask(bl) == Shl(Pow(4, prefix_len(bl)) - 1, suffix_bits(bl))

\* the initial value of prev_ind
PrevIndInit == 65535

\* let ind = ((v & pref_mask) >> (prefix_bits)) as usize;
IndOf(v, bl) == Shr(BitAnd(v, pref_mask(bl)), prefix_bits(bl))

\* the loop over kv.iter().enumerate(): n is the 0-based index of the next
\* element, offs the table so far, prev the value of prev_ind
RECURSIVE NewScan(_, _, _, _, _)
NewScan(skv, n, offs, prev, bl) ==
    IF n >= Len(skv) THEN [offsets |-> offs, prev_ind |-> prev]
    ELSE LET v == skv[n + 1]
             ind == IndOf(v, bl)
         IN  IF ind # prev
             THEN NewScan(skv, n + 1,
                          [j \in DOMAIN offs |->
                              IF j = ind \/ (j < ind /\ j >= prev + 1)
                              THEN n ELSE offs[j]],
                          ind, bl)
             ELSE NewScan(skv, n + 1, offs, prev, bl)

\* for item in offsets.iter_mut().skip(prev_ind + 1) { *item = kv.len(); }
FinalFillNone(offs, prev, len) == offs
FinalFill(offs, prev, len) ==
    [j \in DOMAIN offs |-> IF j >= prev + 1 THEN len ELSE offs[j]]

\* BarcodeLookupMap::new(kv, bclen): the fields barcodes and offsets
NewMap(ikv, bl) ==
    LET skv == SortUnstable(ikv)
        zero == [j \in 0 .. Pow(4, prefix_len(bl)) |-> 0]
        scan == NewScan(skv, 0, zero, PrevIndInit, bl)
    IN  [barcodes |-> skv,
         offsets |-> FinalFill(scan.offsets, scan.prev_ind, Len(skv))]

\* ------------------------------------------------------------------------
\* BarcodeLookupMap::find_exact and find_neighbors
\* ------------------------------------------------------------------------

\* <[T]>::binary_search on the slice bcs[start .. start + len) (0-based) of
\* the sorted barcodes: the set of the results it may give.  Ok(i) is <<i>>
\* with i relative to the slice, Err is << >>.  When several elements of
\* the slice equal x, any one of them may be returned: which one is left
\* open by the library and differs between its versions.
BinarySearch(bcs, start, len, x) ==
    LET matches == {i \in 0 .. (len - 1) : bcs[start + i + 1] = x}
    IN  IF matches = {} THEN {<< >>} ELSE {<<i>> : i \in matches}

\* self.barcodes[qrange].binary_search(&x) with qrange the slice of prefix
\* qp, mapped to Some(qs + res): the set of the results it may give
SearchPrefixSlice(bcs, offs, qp, x) ==
    LET qs == offs[qp]
        qe == offs[qp + 1]
    IN  {IF r = << >> THEN << >> ELSE <<qs + r[1]>> :
            r \in BinarySearch(bcs, qs, qe - qs, x)}

\* find_exact(query): the set of the results it may give
find_exact(bcs, offs, bl, query) ==
    SearchPrefixSlice(bcs, offs, Shr(query, suffix_bits(bl)), query)

\* the mutated k-mer of the two inner loops:
\*   nucl = 0x3 & ((query >> i) + nmod);
\*   nquery = (query & (!bit_mask)) | (nucl << i), bit_mask = 3 << i.
\* 0x3 & x is x % 4; clearing the two bits at i subtracts the nucleotide
\* that is there, and or-ing into the cleared bits adds the new one.
MutatedKmer(query, i, nmod) ==
    LET p == Pow(2, i)
        cur == (query \div p) % 4
        nucl == ((query \div p) + nmod) % 4
    IN  (query - cur * p) + nucl * p

\* the (i, nmod) pairs of a loop nest over the bit offsets lo, lo+2 .. < hi
RECURSIVE ProbeList(_, _)
ProbeList(lo, hi) ==
    IF lo >= hi THEN << >>
    ELSE <<[i |-> lo, nmod |-> 1], [i |-> lo, nmod |-> 2], [i |-> lo, nmod |-> 3]>>
         \o ProbeList(lo + 2, hi)

\* One loop nest of find_neighbors, entered with acc = [ret, num, probes,
\* returned]: the set of the values of acc it may end with.  fixed is TRUE
\* in the suffix loop (the slice of the query's own prefix is searched) and
\* FALSE in the prefix loop (the slice of the mutated k-mer's prefix is
\* searched).  The loop returns as soon as num reaches 2.
RECURSIVE NeighborLoopNoExit(_, _, _, _, _, _, _)
NeighborLoopNoExit(bcs, offs, bl, query, fixed, pl, acc) ==
    IF pl = << >> THEN {acc}
    ELSE LET nquery == MutatedKmer(query, Head(pl).i, Head(pl).nmod)
             qp == IF fixed THEN Shr(query, suffix_bits(bl))
                   ELSE Shr(nquery, suffix_bits(bl))
             nacc(hit) ==
                 [ret |-> IF hit = << >> THEN acc.ret ELSE hit,
                  num |-> IF hit = << >> THEN acc.num ELSE acc.num + 1,
                  probes |-> Append(acc.probes, [kmer |-> nquery, hit |-> hit # << >>]),
                  returned |-> FALSE]
         IN  UNION {NeighborLoopNoExit(bcs, offs, bl, query, fixed, Tail(pl), nacc(hit)) :
                       hit \in SearchPrefixSlice(bcs, offs, qp, nquery)}

RECURSIVE NeighborLoop(_, _, _, _, _, _, _)
NeighborLoop(bcs, offs, bl, query, fixed, pl, acc) ==
    IF pl = << >> \/ acc.returned THEN {acc}
    ELSE LET nquery == MutatedKmer(query, Head(pl).i, Head(pl).nmod)
             qp == IF fixed THEN Shr(query, suffix_bits(bl))
                   ELSE Shr(nquery, suffix_bits(bl))
             nacc(hit) ==
                 [ret |-> IF hit = << >> THEN acc.ret ELSE hit,
                  num |-> IF hit = << >> THEN acc.num ELSE acc.num + 1,
                  probes |-> Append(acc.probes, [kmer |-> nquery, hit |-> hit # << >>]),
                  returned |-> hit # << >> /\ acc.num + 1 >= 2]
         IN  UNION {NeighborLoop(bcs, offs, bl, query, fixed, Tail(pl), nacc(hit)) :
                       hit \in SearchPrefixSlice(bcs, offs, qp, nquery)}

\* find_neighbors(query, try_exact): the set of the results [ret, num,
\* probes, returned] it may give, where ret and num are the returned pair
\* and probes lists the mutated k-mers that were searched, in order, each
\* with whether its binary search was Ok
find_neighbors(bcs, offs, bl, query, try_exact) ==
    LET query_pref == Shr(query, suffix_bits(bl))
        qs == offs[query_pref]
        qe == offs[query_pref + 1]
        exact == SearchPrefixSlice(bcs, offs, query_pref, query)
        start == [ret |-> << >>, num |-> 0, probes |-> << >>, returned |-> FALSE]
        sfx == IF qs < qe
               THEN NeighborLoop(bcs, offs, bl, query, TRUE,
                                 ProbeList(0, suffix_bits(bl)), start)
               ELSE {start}
        pfx == UNION {NeighborLoop(bcs, offs, bl, query, FALSE,
                                   ProbeList(suffix_bits(bl),
                                             suffix_bits(bl) + prefix_bits(bl)), a) :
                         a \in sfx}
    IN  IF try_exact /\ exact # {<< >>}
        THEN {[ret |-> e, num |-> 1, probes |-> << >>, returned |-> TRUE] : e \in exact}
        ELSE pfx

\* ------------------------------------------------------------------------
\* The BarcodeLookupMap state machine
\* ------------------------------------------------------------------------

NoRes == [op |-> "none", query |-> 0, try_exact |-> FALSE,
          ret |-> << >>, num |-> 0, probes |-> << >>]

MapStart ==
    /\ mpc = "input"
    /\ kv = << >>
    /\ permit = {}
    /\ barcodes = << >>
    /\ offsets = << >>
    /\ res = NoRes

\* one more line of the permit list
PushBarcode(b) ==
    /\ mpc = "input"
    /\ (Len(kv) + 1) * bclen <= MaxPermitNucl
    /\ kv' = Append(kv, b)
    /\ UNCHANGED <<mpc, bclen, permit, barcodes, offsets, res>>
    /\ UNCHANGED colvars
    /\ UNCHANGED othervars

\* BarcodeLookupMap::new(kv, bclen); kv is moved into the map
New ==
    /\ mpc = "input"
    /\ mpc' = "built"
    /\ barcodes' = NewMap(kv, bclen).barcodes
    /\ offsets' = NewMap(kv, bclen).offsets
    /\ permit' = {kv[n] : n \in 1 .. Len(kv)}
    /\ kv' = << >>
    /\ UNCHANGED <<bclen, res>>
    /\ UNCHANGED colvars
    /\ UNCHANGED othervars

\* map.find_exact(q)
FindExact(q) ==
    /\ mpc = "built"
    /\ mpc' = "answered"
    /\ \E r \in find_exact(barcodes, offsets, bclen, q) :
          res' = [op |-> "find_exact", query |-> q, try_exact |-> FALSE,
                  ret |-> r, num |-> 0, probes |-> << >>]
    /\ UNCHANGED <<bclen, kv, permit, barcodes, offsets>>
    /\ UNCHANGED colvars
    /\ UNCHANGED othervars

\* map.find_neighbors(q, try_exact)
FindNeighbors(q, te) ==
    /\ mpc = "built"
    /\ mpc' = "answered"
    /\ \E r \in find_neighbors(barcodes, offsets, bclen, q, te) :
          res' = [op |-> "find_neighbors", query |-> q, try_exact |-> te,
                  ret |-> r.ret, num |-> r.num, probes |-> r.probes]
    /\ UNCHANGED <<bclen, kv, permit, barcodes, offsets>>
    /\ UNCHANGED colvars
    /\ UNCHANGED othervars

\* the map is not in use
MapIdle ==
    /\ mpc = "idle"
    /\ bclen = 0
    /\ kv = << >>
    /\ permit = {}
    /\ barcodes = << >>
    /\ offsets = << >>
    /\ res = NoRes

\* ------------------------------------------------------------------------
\* Bytes: RadIntId, little-endian integers, BufReader, Cursor<Vec<u8>>
\* ------------------------------------------------------------------------

IntTypes == {"U8", "U16", "U32", "U64"}

bytes_for_type(t) ==
    CASE t = "U8" -> 1 [] t = "U16" -> 2 [] t = "U32" -> 4 [] t = "U64" -> 8

\* (v as uN).to_le_bytes() for N = 8 * n: the low n bytes of v, lowest first
RECURSIVE ToLeBytes(_, _)
ToLeBytes(v, n) ==
    IF n = 0 THEN << >> ELSE <<v % 256>> \o ToLeBytes(v \div 256, n - 1)

\* pread::<uN>(0) as u64: the value of little-endian bytes, zero-extended
RECURSIVE FromLeBytes(_)
FromLeBytes(b) ==
    IF b = << >> THEN 0 ELSE Head(b) + 256 * FromLeBytes(Tail(b))

\* write_to that writes v in the width of u64 whatever the type
write_to_wide(t, v) == ToLeBytes(v, 8)

\* RadIntId::write_to(v, owriter): the bytes handed to write_all
write_to(t, v) == ToLeBytes(v, bytes_for_type(t))

Zeros(n) == [j \in 1 .. n |-> 0]

\* Cursor<Vec<u8>>::write_all(data) at the cursor's position: bytes inside
\* the vector are overwritten, the vector grows when the write passes its
\* end (zero-filled up to the position first)
CursorWrite(cur, data) ==
    LET old == IF cur.pos > Len(cur.data)
               THEN cur.data \o Zeros(cur.pos - Len(cur.data))
               ELSE cur.data
        end == cur.pos + Len(data)
        len == IF end > Len(old) THEN end ELSE Len(old)
    IN  [data |-> [j \in 1 .. len |->
                      IF j > cur.pos /\ j <= end THEN data[j - cur.pos] ELSE old[j]],
         pos |-> end]

\* The bytes a BufReader over the file file, in state rd, delivers next:
\* what it has read ahead, then the file from its position on.
ReaderStream(file, rd) == rd.buf \o SubSeq(file, rd.pos + 1, Len(file))

\* reader.read_exact(n bytes): [bytes, rd].  When the read-ahead buffer does
\* not hold n bytes the BufReader reads the file; the files of the model are
\* shorter than its capacity, so it then holds the rest of the file.
ReadExact(file, rd, n) ==
    LET st == ReaderStream(file, rd)
    IN  [bytes |-> SubSeq(st, 1, n),
         rd |-> IF n <= Len(rd.buf)
                THEN [buf |-> SubSeq(rd.buf, n + 1, Len(rd.buf)), pos |-> rd.pos]
                ELSE [buf |-> SubSeq(st, n + 1, Len(st)), pos |-> Len(file)]]

\* read_into_u64(reader, rt): [v, rd]
read_into_u64(file, rd, rt) ==
    LET r == ReadExact(file, rd, bytes_for_type(rt))
    IN  [v |-> FromLeBytes(r.bytes), rd |-> r.rd]

\* ReadRecord::from_bytes_record_header(reader, bct, umit): (bc, umi, na)
\* and the reader after it
from_bytes_record_header(file, rd, bt, ut) ==
    LET r1 == ReadExact(file, rd, 4)
        r2 == read_into_u64(file, r1.rd, bt)
        r3 == read_into_u64(file, r2.rd, ut)
    IN  [bc |-> r2.v, umi |-> r3.v, na |-> FromLeBytes(r1.bytes), rd |-> r3.rd]

\* ------------------------------------------------------------------------
\* The temporary bucket file
\* ------------------------------------------------------------------------

\* the j-th alignment entry of the record with UMI u, as its 4 bytes on
\* the wire: reference id 16 * u + 8 - j (descending in j), forward (top bit
\* set) when u + j is odd
AlnEntry(u, j) == <<16 * u + 8 - j, 0, 0, IF (u + j) % 2 = 1 THEN 128 ELSE 0>>

RECURSIVE AlnBytes(_, _)
AlnBytes(u, na) == IF na = 0 THEN << >> ELSE AlnBytes(u, na - 1) \o AlnEntry(u, na)

\* an encoded ReadRecord: na, bc, umi, then the na alignment entries
EncodeRecord(bt, ut, bc, umi, na) ==
    ToLeBytes(na, 4) \o write_to(bt, bc) \o write_to(ut, umi) \o AlnBytes(umi, na)

RECURSIVE SumNa(_)
SumNa(rs) == IF rs = << >> THEN 0 ELSE Head(rs).na + SumNa(Tail(rs))

RECURSIVE FileOf(_)
FileOf(rs) == IF rs = << >> THEN << >> ELSE Head(rs).bytes \o FileOf(Tail(rs))

\* the records of scenario 5 of the specification: barcodes [A, B, A, B],
\* na = [1, 2, 3, 1], bct = umit = U32
ScenarioA == CHOOSE b \in CellBarcodes : \A c \in CellBarcodes : b <= c
ScenarioB == CHOOSE b \in CellBarcodes : b # ScenarioA
ScenarioRecs ==
    <<[bc |-> ScenarioA, na |-> 1, bytes |-> EncodeRecord("U32", "U32", ScenarioA, 1, 1)],
      [bc |-> ScenarioB, na |-> 2, bytes |-> EncodeRecord("U32", "U32", ScenarioB, 2, 2)],
      [bc |-> ScenarioA, na |-> 3, bytes |-> EncodeRecord("U32", "U32", ScenarioA, 3, 3)],
      [bc |-> ScenarioB, na |-> 1, bytes |-> EncodeRecord("U32", "U32", ScenarioB, 4, 1)]>>

\* the nrec argument of the collators: the number of records of the file
nrec == Len(recs)

\* ------------------------------------------------------------------------
\* collate_temporary_bucket_twopass
\* ------------------------------------------------------------------------

header_size == 8

calc_record_bytes_unscaled(num_aln, bt, ut) ==
    4 + bytes_for_type(bt) + bytes_for_type(ut) + num_aln
calc_record_bytes(num_aln, bt, ut) ==
    4 + bytes_for_type(bt) + bytes_for_type(ut) + 4 * num_aln

\* the TempCellInfo that or_insert puts in for a new barcode
NewCellInfoNoHeader == [offset |-> header_size, nbytes |-> 0, nrec |-> 0]
NewCellInfo == [offset |-> header_size, nbytes |-> header_size, nrec |-> 0]

MapPut(m, key, val) ==
    [x \in (DOMAIN m) \cup {key} |-> IF x = key THEN val ELSE m[x]]

\* pass 1, one record: v of the entry after the three updates
Pass1Update(v, nbytes) ==
    [offset |-> v.offset + nbytes, nbytes |-> v.nbytes + nbytes, nrec |-> v.nrec + 1]

\* the orders in which a HashMap with the keys S can be iterated
Orders(S) ==
    {o \in [1 .. Cardinality(S) -> S] : \A a, b \in DOMAIN o : a # b => o[a] # o[b]}

\* the loop over cb_byte_map.iter_mut(), visiting the cells in order:
\* the map and the output buffer after it
RECURSIVE LayoutCells(_, _, _, _)
LayoutCells(order, m, cur, next_offset) ==
    IF order = << >> THEN [map |-> m, out |-> cur]
    ELSE LET key == Head(order)
             v == m[key]
             c1 == CursorWrite([data |-> cur.data, pos |-> next_offset],
                               ToLeBytes(v.nbytes, 4))
             c2 == CursorWrite(c1, ToLeBytes(v.nrec, 4))
         IN  LayoutCells(Tail(order), [m EXCEPT ![key].offset = c2.pos], c2,
                         next_offset + v.nbytes)

\* pass 2, one record: the output buffer after the four writes at cur
Pass2WriteNoAln(cur, tup, aln, bt, ut) ==
    CursorWrite(CursorWrite(CursorWrite(cur, ToLeBytes(tup.na, 4)),
                            write_to(bt, tup.bc)),
                write_to(ut, tup.umi))
Pass2Write(cur, tup, aln, bt, ut) ==
    CursorWrite(CursorWrite(CursorWrite(CursorWrite(cur, ToLeBytes(tup.na, 4)),
                                        write_to(bt, tup.bc)),
                            write_to(ut, tup.umi)),
                aln)

NoWrite == [bc |-> 0, from |-> 0, to |-> 0]

\* no collation is in progress
ColFresh ==
    /\ reader = [buf |-> << >>, pos |-> 0]
    /\ k = 0
    /\ cb_byte_map = << >>
    /\ total_bytes = 0
    /\ output_buffer = [data |-> << >>, pos |-> 0]
    /\ layout = << >>
    /\ lastw = NoWrite
    /\ output_cache = << >>
    /\ dumped = {}
    /\ correct_map = << >>
    /\ expected_ori = "Unknown"
    /\ chunk_nrec = 0
    /\ owriter = << >>

\* the collators are not in use
ColIdle ==
    /\ cpc = "idle"
    /\ bct = "U8"
    /\ umit = "U8"
    /\ input = << >>
    /\ recs = << >>
    /\ ColFresh

\* an empty temporary bucket file, or the file of scenario 5
ColInit ==
    /\ cpc = "input"
    /\ bct \in IntTypes
    /\ umit \in IntTypes
    /\ \/ recs = << >>
       \/ bct = "U32" /\ umit = "U32" /\ recs = ScenarioRecs
    /\ input = FileOf(recs)
    /\ ColFresh

\* one more record is appended to the temporary bucket file; its UMI is
\* its sequence number in the file
AppendRecord(bc, na) ==
    /\ cpc = "input"
    /\ Len(recs) < MaxRecs
    /\ SumNa(recs) + na <= MaxAln
    /\ LET bytes == EncodeRecord(bct, umit, bc, Len(recs) + 1, na)
       IN  /\ recs' = Append(recs, [bc |-> bc, na |-> na, bytes |-> bytes])
           /\ input' = input \o bytes
    /\ UNCHANGED <<cpc, bct, umit, reader, k, owriter>>
    /\ UNCHANGED <<twopassvars, cachevars>>
    /\ UNCHANGED mapvars
    /\ UNCHANGED othervars

\* collate_temporary_bucket_twopass is called on the file with an empty
\* cb_byte_map
StartTwoPass ==
    /\ cpc = "input"
    /\ cpc' = "pass1"
    /\ UNCHANGED <<bct, umit, input, recs, reader, k, owriter>>
    /\ UNCHANGED <<twopassvars, cachevars>>
    /\ UNCHANGED mapvars
    /\ UNCHANGED othervars

\* one iteration of the first loop over the records
Pass1Record ==
    /\ cpc = "pass1"
    /\ k < nrec
    /\ LET tup == from_bytes_record_header(input, reader, bct, umit)
           v == IF tup.bc \in DOMAIN cb_byte_map
                THEN cb_byte_map[tup.bc] ELSE NewCellInfo
           aln == ReadExact(input, tup.rd, 4 * tup.na)
           nbytes == calc_record_bytes(tup.na, bct, umit)
       IN  /\ cb_byte_map' = MapPut(cb_byte_map, tup.bc, Pass1Update(v, nbytes))
           /\ reader' = aln.rd
           /\ total_bytes' = total_bytes + nbytes
    /\ k' = k + 1
    /\ UNCHANGED <<cpc, bct, umit, input, recs, output_buffer, layout, lastw,
                   owriter>>
    /\ UNCHANGED cachevars
    /\ UNCHANGED mapvars
    /\ UNCHANGED othervars

\* after the first loop: the output buffer is allocated, every cell gets
\* its header and its region, and the input is rewound
Layout ==
    /\ cpc = "pass1"
    /\ k = nrec
    /\ \E order \in Orders(DOMAIN cb_byte_map) :
          LET tb == total_bytes + Cardinality(DOMAIN cb_byte_map) * header_size
              r == LayoutCells(order, cb_byte_map, [data |-> Zeros(tb), pos |-> 0], 0)
          IN  /\ total_bytes' = tb
              /\ output_buffer' = r.out
              /\ cb_byte_map' = r.map
              /\ layout' = order
    /\ reader' = [buf |-> reader.buf, pos |-> 0]
    /\ k' = 0
    /\ cpc' = "pass2"
    /\ UNCHANGED <<bct, umit, input, recs, lastw, owriter>>
    /\ UNCHANGED cachevars
    /\ UNCHANGED mapvars
    /\ UNCHANGED othervars

\* one iteration of the second loop over the records
Pass2Record ==
    /\ cpc = "pass2"
    /\ k < nrec
    /\ LET tup == from_bytes_record_header(input, reader, bct, umit)
           aln == ReadExact(input, tup.rd, 4 * tup.na)
       IN  /\ tup.bc \in DOMAIN cb_byte_map
           /\ LET v == cb_byte_map[tup.bc]
                  w == Pass2Write([data |-> output_buffer.data, pos |-> v.offset],
                                  tup, aln.bytes, bct, umit)
              IN  /\ output_buffer' = w
                  /\ cb_byte_map' = [cb_byte_map EXCEPT ![tup.bc].offset = w.pos]
                  /\ lastw' = [bc |-> tup.bc, from |-> v.offset, to |-> w.pos]
           /\ reader' = aln.rd
    /\ k' = k + 1
    /\ UNCHANGED <<cpc, bct, umit, input, recs, total_bytes, layout, owriter>>
    /\ UNCHANGED cachevars
    /\ UNCHANGED mapvars
    /\ UNCHANGED othervars

\* after the second loop: the buffer goes to the output writer in one
\* write_all under its lock; with compress it is first wrapped in a Snappy
\* frame, which is recorded as the frame's payload
WriteOut(compress) ==
    /\ cpc = "pass2"
    /\ k = nrec
    /\ output_buffer' = [output_buffer EXCEPT !.pos = 0]
    /\ owriter' = Append(owriter, [framed |-> compress, bytes |-> output_buffer.data])
    /\ cpc' = "done"
    /\ UNCHANGED <<bct, umit, input, recs, reader, k, cb_byte_map, total_bytes,
                   layout, lastw>>
    /\ UNCHANGED cachevars
    /\ UNCHANGED mapvars
    /\ UNCHANGED othervars

\* ------------------------------------------------------------------------
\* CorrectedCbChunk, dump_chunk, collate_temporary_bucket
\* ------------------------------------------------------------------------

\* CorrectedCbChunk::from_label_and_counter(corrected_bc_in, num_remain):
\* the buffer starts with eight zero bytes kept for the chunk header
from_label_and_counter(corrected_bc_in, num_remain) ==
    [remaining_records |-> num_remain,
     corrected_bc |-> corrected_bc_in,
     nrec |-> 0,
     data |-> CursorWrite(CursorWrite([data |-> << >>, pos |-> 0], ToLeBytes(0, 4)),
                          ToLeBytes(0, 4))]

\* dump_chunk(v, owriter): [v, bytes], v after the call and bytes what went
\* to the writer in the one write_all under its lock
dump_chunk_no_rewind(v) ==
    LET c1 == CursorWrite(v.data, ToLeBytes(Len(v.data.data), 4))
        c2 == CursorWrite(c1, ToLeBytes(v.nrec, 4))
    IN  [v |-> [v EXCEPT !.data = c2], bytes |-> c2.data]
dump_chunk(v) ==
    LET nbytes == Len(v.data.data)
        c1 == CursorWrite([data |-> v.data.data, pos |-> 0], ToLeBytes(nbytes, 4))
        c2 == CursorWrite(c1, ToLeBytes(v.nrec, 4))
    IN  [v |-> [v EXCEPT !.data = c2], bytes |-> c2.data]

\* est_num_rec of collate_temporary_bucket
est_num_rec == 1

\* collate_temporary_bucket, one record: the entry v after the record with
\* header tup and alignment bytes aln was appended
CollateAppend(v, tup, aln, bt, ut) ==
    [v EXCEPT !.nrec = v.nrec + 1,
              !.data = CursorWrite(CursorWrite(CursorWrite(CursorWrite(
                            v.data, ToLeBytes(tup.na, 4)),
                            write_to(bt, tup.bc)),
                            write_to(ut, tup.umi)),
                            aln)]

\* collate_temporary_bucket is called on the file with an empty output_cache
StartCollate ==
    /\ cpc = "input"
    /\ cpc' = "collate"
    /\ UNCHANGED <<bct, umit, input, recs, reader, k, owriter>>
    /\ UNCHANGED <<twopassvars, cachevars>>
    /\ UNCHANGED mapvars
    /\ UNCHANGED othervars

\* one iteration of the loop of collate_temporary_bucket
CollateRecord ==
    /\ cpc = "collate"
    /\ k < nrec
    /\ LET tup == from_bytes_record_header(input, reader, bct, umit)
           v == IF tup.bc \in DOMAIN output_cache
                THEN output_cache[tup.bc]
                ELSE from_label_and_counter(tup.bc, est_num_rec)
           aln == ReadExact(input, tup.rd, 4 * tup.na)
       IN  /\ output_cache' =
                 MapPut(output_cache, tup.bc, CollateAppend(v, tup, aln.bytes, bct, umit))
           /\ reader' = aln.rd
    /\ k' = k + 1
    /\ UNCHANGED <<cpc, bct, umit, input, recs, dumped, correct_map, expected_ori,
                   chunk_nrec, owriter>>
    /\ UNCHANGED twopassvars
    /\ UNCHANGED mapvars
    /\ UNCHANGED othervars

\* after collate_temporary_bucket the caller hands each cell of the cache
\* to dump_chunk, once
DumpCell(key) ==
    /\ cpc = "collate"
    /\ k = nrec
    /\ key \notin dumped
    /\ LET d == dump_chunk(output_cache[key])
       IN  /\ output_cache' = [output_cache EXCEPT ![key] = d.v]
           /\ owriter' = Append(owriter, [framed |-> FALSE, bytes |-> d.bytes])
    /\ dumped' = dumped \cup {key}
    /\ UNCHANGED <<cpc, bct, umit, input, recs, reader, k, correct_map, expected_ori,
                   chunk_nrec>>
    /\ UNCHANGED twopassvars
    /\ UNCHANGED mapvars
    /\ UNCHANGED othervars

\* ------------------------------------------------------------------------
\* process_corrected_cb_chunk
\* ------------------------------------------------------------------------

Strands == {"Forward", "Reverse", "Unknown"}

\* v & m of two u32, both given as their 4 little-endian bytes
And32(v, m) == [j \in 1 .. 4 |-> BitAnd(v[j], m[j])]

\* utils::MASK_TOP_BIT_U32 = 0x7FFF_FFFF and utils::MASK_LOWER_31_U32 =
\* 0x8000_0000, as their 4 little-endian bytes
MASK_TOP_BIT_U32 == <<255, 255, 255, 127>>
MASK_LOWER_31_U32 == <<0, 0, 0, 128>>

\* an alignment entry v, given as its 4 little-endian bytes:
\* (v & MASK_LOWER_31_U32) > 0, the strand flag in the top bit
TopBitSet(e) == And32(e, MASK_LOWER_31_U32) # <<0, 0, 0, 0>>
\* v & MASK_TOP_BIT_U32, the reference id in the low 31 bits
Low31(e) == FromLeBytes(And32(e, MASK_TOP_BIT_U32))

\* expected_ori.same(&strand) || expected_ori.is_unknown(), strand the
\* strand of an entry
KeepsOri(ori, e) ==
    \/ ori = "Unknown"
    \/ ori = (IF TopBitSet(e) THEN "Forward" ELSE "Reverse")

\* the loop of from_bytes_with_header_keep_ori over the na entries in bytes:
\* the reference ids pushed to rec.refs
RECURSIVE KeptRefs(_, _)
KeptRefs(bytes, ori) ==
    IF bytes = << >> THEN << >>
    ELSE (IF KeepsOri(ori, SubSeq(bytes, 1, 4))
          THEN <<Low31(SubSeq(bytes, 1, 4))>> ELSE << >>)
         \o KeptRefs(SubSeq(bytes, 5, Len(bytes)), ori)

\* ReadRecord::from_bytes_with_header_keep_ori(reader, bc, umi, na,
\* expected_ori): the record (dirs is never pushed to) and the reader after it
from_bytes_with_header_keep_ori(file, rd, bc, umi, na, ori) ==
    LET r == ReadExact(file, rd, 4 * na)
    IN  [bc |-> bc, umi |-> umi, dirs |-> << >>,
         refs |-> SortUnstable(KeptRefs(r.bytes, ori)), rd |-> r.rd]

\* as_u8_slice(refs) on a little-endian host
RECURSIVE as_u8_slice(_)
as_u8_slice(refs) ==
    IF refs = << >> THEN << >>
    ELSE ToLeBytes(Head(refs), 4) \o as_u8_slice(Tail(refs))

\* process_corrected_cb_chunk without the decrement of remaining_records
ProcessIntoCellNoCountdown(v, corrected_id, rr, bt, ut) ==
    LET v1 == v
        last_record == v1.remaining_records = 0
        v2 == [v1 EXCEPT !.nrec = v1.nrec + 1,
                         !.data = CursorWrite(CursorWrite(CursorWrite(CursorWrite(
                                      v1.data, ToLeBytes(Len(rr.refs), 4)),
                                      write_to(bt, corrected_id)),
                                      write_to(ut, rr.umi)),
                                      as_u8_slice(rr.refs))]
        v3 == IF rr.refs = << >> THEN v1 ELSE v2
    IN  IF last_record
        THEN [v |-> dump_chunk(v3).v,
              out |-> <<[framed |-> FALSE, bytes |-> dump_chunk(v3).bytes]>>]
        ELSE [v |-> v3, out |-> << >>]

\* the body of `if let Some(mut v) = output_cache.get_mut(corrected_id)`:
\* [v, out], v the entry after the record rr and out the writes that reached
\* the output writer (none, or the one of dump_chunk)
ProcessIntoCell(v, corrected_id, rr, bt, ut) ==
    LET v1 == [v EXCEPT !.remaining_records = v.remaining_records - 1]
        last_record == v1.remaining_records = 0
        v2 == [v1 EXCEPT !.nrec = v1.nrec + 1,
                         !.data = CursorWrite(CursorWrite(CursorWrite(CursorWrite(
                                      v1.data, ToLeBytes(Len(rr.refs), 4)),
                                      write_to(bt, corrected_id)),
                                      write_to(ut, rr.umi)),
                                      as_u8_slice(rr.refs))]
        v3 == IF rr.refs = << >> THEN v1 ELSE v2
    IN  IF last_record
        THEN [v |-> dump_chunk(v3).v,
              out |-> <<[framed |-> FALSE, bytes |-> dump_chunk(v3).bytes]>>]
        ELSE [v |-> v3, out |-> << >>]

\* the RAD chunk that holds the records of the file: header (nbytes, nrec)
ChunkFile == ToLeBytes(8 + Len(input), 4) \o ToLeBytes(nrec, 4) \o input

\* the correction maps of the model: both barcodes permitted; 2 corrected
\* to 1; 1 permitted and 2 not correctable
CorrectMaps == {(1 :> 1) @@ (2 :> 2), (1 :> 1) @@ (2 :> 1), (1 :> 1)}

\* the number of records of the chunk whose barcode corrects to id
CorrectableTo(cm, id) ==
    Cardinality({n \in 1 .. Len(recs) : recs[n].bc \in DOMAIN cm /\ cm[recs[n].bc] = id})

\* The caller's output cache: one CorrectedCbChunk per corrected barcode that
\* has records, counting down from the number of its records.
CacheFor(cm) ==
    [id \in {x \in {cm[b] : b \in DOMAIN cm} : CorrectableTo(cm, x) > 0} |->
        from_label_and_counter(id, CorrectableTo(cm, id))]

\* process_corrected_cb_chunk is called on the chunk: it reads the header
StartProcess(cm, ori) ==
    /\ cpc = "input"
    /\ cpc' = "process"
    /\ correct_map' = cm
    /\ expected_ori' = ori
    /\ output_cache' = CacheFor(cm)
    /\ LET h == ReadExact(ChunkFile, reader, 8)
       IN  /\ chunk_nrec' = FromLeBytes(SubSeq(h.bytes, 5, 8))
           /\ reader' = h.rd
    /\ UNCHANGED <<bct, umit, input, recs, k, dumped, owriter>>
    /\ UNCHANGED twopassvars
    /\ UNCHANGED mapvars
    /\ UNCHANGED othervars

\* one iteration of the loop of process_corrected_cb_chunk
ProcessRecord ==
    /\ cpc = "process"
    /\ k < chunk_nrec
    /\ LET tup == from_bytes_record_header(ChunkFile, reader, bct, umit)
       IN  IF tup.bc \in DOMAIN correct_map
           THEN LET corrected_id == correct_map[tup.bc]
                    rr == from_bytes_with_header_keep_ori(
                              ChunkFile, tup.rd, tup.bc, tup.umi, tup.na, expected_ori)
                IN  /\ reader' = rr.rd
                    /\ IF corrected_id \in DOMAIN output_cache
                       THEN LET r == ProcessIntoCell(output_cache[corrected_id],
                                                     corrected_id, rr, bct, umit)
                            IN  /\ output_cache' =
                                      [output_cache EXCEPT ![corrected_id] = r.v]
                                /\ owriter' = owriter \o r.out
                       ELSE UNCHANGED <<output_cache, owriter>>
           ELSE /\ reader' = ReadExact(ChunkFile, tup.rd, 4 * tup.na).rd
                /\ UNCHANGED <<output_cache, owriter>>
    /\ k' = k + 1
    /\ UNCHANGED <<cpc, bct, umit, input, recs, dumped, correct_map, expected_ori,
                   chunk_nrec>>
    /\ UNCHANGED twopassvars
    /\ UNCHANGED mapvars
    /\ UNCHANGED othervars

\* ------------------------------------------------------------------------
\* TempBucket, dump_corrected_cb_chunk_to_temp_file (the sharder)
\* ------------------------------------------------------------------------

\* the bucket ids of the model
BucketIds == {0, 1}

\* the length of the slice behind each Cursor<&mut [u8]> of local_buffers
LocalBufSize == 32

\* the flush limits of the model
FlushLimits == {12, 32}

\* the RadIntId pairs (bct, umit) of the sharder runs
ShardTypePairs == {<<"U8", "U8">>, <<"U16", "U32">>, <<"U32", "U16">>, <<"U64", "U64">>}

\* the sharder's output caches of the model: a bucket for each corrected
\* barcode, or a bucket for barcode 1 only
BucketMaps == {(1 :> 0) @@ (2 :> 1), (1 :> 0)}

\* TempBucket::from_id_and_parent: an empty file, a free mutex, zero counters
NewBucket ==
    [file |-> << >>, lock |-> 0, num_records_written |-> 0, num_bytes_written |-> 0]

\* no record is being appended
NoPend == [id |-> 0, bucket |-> 0, umi |-> 0, refs |-> << >>, nb |-> 0]

\* the UMI of the i-th record of the chunk of thread t
ShardUmi(t, i) == 4 * (t - 1) + i

\* the encoded records of a chunk of thread t, given as a list of <<bc, na>>
RECURSIVE ShardRecordBytes(_, _, _, _, _)
ShardRecordBytes(bt, ut, t, lst, i) ==
    IF i > Len(lst) THEN << >>
    ELSE EncodeRecord(bt, ut, lst[i][1], ShardUmi(t, i), lst[i][2])
         \o ShardRecordBytes(bt, ut, t, lst, i + 1)

\* a RAD chunk with these records: header (nbytes, nrec), then the records
ShardChunk(bt, ut, t, lst) ==
    LET body == ShardRecordBytes(bt, ut, t, lst, 1)
    IN  ToLeBytes(8 + Len(body), 4) \o ToLeBytes(Len(lst), 4) \o body

\* a producer thread about to call the sharder on the chunk lst
NewThread(bt, ut, t, lst) ==
    [pc |-> "start",
     file |-> ShardChunk(bt, ut, t, lst),
     recs |-> lst,
     rd |-> [buf |-> << >>, pos |-> 0],
     nrec |-> 0,
     done |-> 0,
     bufs |-> [b \in BucketIds |-> << >>],
     pend |-> NoPend]

\* where a thread goes after one more iteration of the loop over the records
AfterRecord(th) == IF th.done + 1 = th.nrec THEN "done" ELSE "read"

\* nb of the sharder: the bytes the record rr takes in the bucket
ShardNbNoHeader(refs, bt, ut) == Len(refs) * 4
ShardNb(refs, bt, ut) == Len(refs) * 4 + 4 + bytes_for_type(bt) + bytes_for_type(ut)

\* the four writes of the record to the thread-local cursor
ShardEncode(id, umi, refs, bt, ut) ==
    ToLeBytes(Len(refs), 4) \o write_to(bt, id) \o write_to(ut, umi) \o as_u8_slice(refs)

\* the mutex of the bucket writer can be taken
BucketFreeAlways(b) == TRUE
BucketFree(b) == buckets[b].lock = 0

\* the bytes of a flush that the first write to the file takes
FlushHead(bytes) == SubSeq(bytes, 1, Len(bytes) \div 2)
\* a write_all that stops after its first write
FlushTailDropped(bytes) == << >>
\* the bytes the rest of write_all takes
FlushTail(bytes) == SubSeq(bytes, Len(bytes) \div 2 + 1, Len(bytes))

\* the else branch of the sharder: the alignment entries of a record without
\* a corrected barcode are read and dropped; the reader after it
DiscardNothing(file, rd, na) == rd
DiscardAlignments(file, rd, na) == ReadExact(file, rd, 4 * na).rd

\* the sharder is called by thread t: it reads the header of the chunk
ShardStart(t) ==
    /\ threads[t].pc = "start"
    /\ LET th == threads[t]
           h == ReadExact(th.file, th.rd, 8)
           n == FromLeBytes(SubSeq(h.bytes, 5, 8))
       IN  threads' = [threads EXCEPT ![t] =
               [th EXCEPT !.rd = h.rd, !.nrec = n,
                          !.pc = IF n = 0 THEN "done" ELSE "read"]]
    /\ UNCHANGED <<buckets, bucket_of, flush_limit>>
    /\ UNCHANGED <<mapvars, colvars, emitvars, codecvars>>

\* one iteration of the loop up to the append: the record is read, and
\* skipped, or it is decided whether its buffer is flushed first
ShardRead(t) ==
    /\ threads[t].pc = "read"
    /\ LET th == threads[t]
           tup == from_bytes_record_header(th.file, th.rd, bct, umit)
       IN  IF tup.bc \in DOMAIN correct_map
           THEN LET corrected_id == correct_map[tup.bc]
                    rr == from_bytes_with_header_keep_ori(
                              th.file, tup.rd, tup.bc, tup.umi, tup.na, expected_ori)
                    nb == ShardNb(rr.refs, bct, umit)
                IN  IF rr.refs = << >> \/ corrected_id \notin DOMAIN bucket_of
                    THEN threads' = [threads EXCEPT ![t] =
                             [th EXCEPT !.rd = rr.rd, !.done = th.done + 1,
                                        !.pc = AfterRecord(th)]]
                    ELSE LET b == bucket_of[corrected_id]
                             len == Len(th.bufs[b])
                         IN  threads' = [threads EXCEPT ![t] =
                                 [th EXCEPT !.rd = rr.rd,
                                            !.pend = [id |-> corrected_id, bucket |-> b,
                                                      umi |-> rr.umi, refs |-> rr.refs,
                                                      nb |-> nb],
                                            !.pc = IF len + nb >= flush_limit
                                                   THEN "lock" ELSE "append"]]
           ELSE threads' = [threads EXCEPT ![t] =
                    [th EXCEPT !.rd = DiscardAlignments(th.file, tup.rd, tup.na),
                               !.done = th.done + 1,
                               !.pc = AfterRecord(th)]]
    /\ UNCHANGED <<buckets, bucket_of, flush_limit>>
    /\ UNCHANGED <<mapvars, colvars, emitvars, codecvars>>

\* v.bucket_writer.lock(): the thread takes the mutex of the bucket
ShardLock(t) ==
    /\ threads[t].pc = "lock"
    /\ LET b == threads[t].pend.bucket
       IN  /\ BucketFree(b)
           /\ buckets' = [buckets EXCEPT ![b].lock = t]
    /\ threads' = [threads EXCEPT ![t].pc = "flush"]
    /\ UNCHANGED <<bucket_of, flush_limit>>
    /\ UNCHANGED <<mapvars, colvars, emitvars, codecvars>>

\* filebuf.write_all(&bcursor.get_ref()[0..len]), the first bytes it writes
ShardFlushHead(t) ==
    /\ threads[t].pc = "flush"
    /\ LET b == threads[t].pend.bucket
       IN  buckets' = [buckets EXCEPT
               ![b].file = buckets[b].file \o FlushHead(threads[t].bufs[b])]
    /\ threads' = [threads EXCEPT ![t].pc = "flushed"]
    /\ UNCHANGED <<bucket_of, flush_limit>>
    /\ UNCHANGED <<mapvars, colvars, emitvars, codecvars>>

\* the rest of write_all, bcursor.set_position(0), and the mutex guard drops
ShardFlushTail(t) ==
    /\ threads[t].pc = "flushed"
    /\ LET b == threads[t].pend.bucket
       IN  /\ buckets' = [buckets EXCEPT
                 ![b].file = buckets[b].file \o FlushTail(threads[t].bufs[b]),
                 ![b].lock = 0]
           /\ threads' = [threads EXCEPT ![t].bufs[b] = << >>, ![t].pc = "append"]
    /\ UNCHANGED <<bucket_of, flush_limit>>
    /\ UNCHANGED <<mapvars, colvars, emitvars, codecvars>>

\* the record is written to the thread-local cursor (a write past the end
\* of its slice fails and the unwrap panics), then
\* num_records_written.fetch_add(1)
ShardAppend(t) ==
    /\ threads[t].pc = "append"
    /\ LET th == threads[t]
           b == th.pend.bucket
           rec == ShardEncode(th.pend.id, th.pend.umi, th.pend.refs, bct, umit)
           all == th.bufs[b] \o rec
       IN  IF Len(all) <= LocalBufSize
           THEN /\ threads' = [threads EXCEPT ![t].bufs[b] = all, ![t].pc = "count"]
                /\ buckets' = [buckets EXCEPT ![b].num_records_written = @ + 1]
           ELSE /\ threads' = [threads EXCEPT
                      ![t].bufs[b] = SubSeq(all, 1, LocalBufSize),
                      ![t].pc = "panicked"]
                /\ UNCHANGED buckets
    /\ UNCHANGED <<bucket_of, flush_limit>>
    /\ UNCHANGED <<mapvars, colvars, emitvars, codecvars>>

\* num_bytes_written.fetch_add(nb), and the iteration is over
ShardCount(t) ==
    /\ threads[t].pc = "count"
    /\ LET th == threads[t]
       IN  /\ buckets' = [buckets EXCEPT ![th.pend.bucket].num_bytes_written =
                              @ + th.pend.nb]
           /\ threads' = [threads EXCEPT ![t] =
                  [th EXCEPT !.pend = NoPend, !.done = th.done + 1,
                             !.pc = AfterRecord(th)]]
    /\ UNCHANGED <<bucket_of, flush_limit>>
    /\ UNCHANGED <<mapvars, colvars, emitvars, codecvars>>

\* the sharder is not in use
ShardIdle ==
    /\ threads = << >>
    /\ buckets = << >>
    /\ bucket_of = << >>
    /\ flush_limit = 0

\* the collators are not in use, whatever bct, umit, correct_map and
\* expected_ori are
ColUnused ==
    /\ cpc = "idle"
    /\ input = << >>
    /\ recs = << >>
    /\ reader = [buf |-> << >>, pos |-> 0]
    /\ k = 0
    /\ cb_byte_map = << >>
    /\ total_bytes = 0
    /\ output_buffer = [data |-> << >>, pos |-> 0]
    /\ layout = << >>
    /\ lastw = NoWrite
    /\ output_cache = << >>
    /\ dumped = {}
    /\ chunk_nrec = 0
    /\ owriter = << >>

\* the chunks of at most n records with at most a alignments in total
RecLists(n, a) ==
    {l \in UNION {[1 .. m -> CellBarcodes \X (0 .. a)] : m \in 0 .. n} :
        SumNa([i \in DOMAIN l |-> [na |-> l[i][2]]]) <= a}

\* the chunks of at most n records of one alignment each
UnitLists(n) == UNION {[1 .. m -> CellBarcodes \X {1}] : m \in 0 .. n}

\* the sum of f over the set S
RECURSIVE SumOver(_, _)
SumOver(f, S) ==
    IF S = {} THEN 0
    ELSE LET x == CHOOSE y \in S : TRUE IN f[x] + SumOver(f, S \ {x})

\* ------------------------------------------------------------------------
\* Workers that share the output writer
\* ------------------------------------------------------------------------

\* collate_temporary_bucket_twopass, the first loop over n records: the
\* map, total_bytes and the reader after it
RECURSIVE Pass1All(_, _, _, _, _, _, _)
Pass1All(file, rd, n, m, total, bt, ut) ==
    IF n = 0 THEN [map |-> m, total |-> total, rd |-> rd]
    ELSE LET tup == from_bytes_record_header(file, rd, bt, ut)
             v == IF tup.bc \in DOMAIN m THEN m[tup.bc] ELSE NewCellInfo
             aln == ReadExact(file, tup.rd, 4 * tup.na)
             nbytes == calc_record_bytes(tup.na, bt, ut)
         IN  Pass1All(file, aln.rd, n - 1, MapPut(m, tup.bc, Pass1Update(v, nbytes)),
                      total + nbytes, bt, ut)

\* the second loop over n records: the output buffer after it
RECURSIVE Pass2All(_, _, _, _, _, _, _)
Pass2All(file, rd, n, m, out, bt, ut) ==
    IF n = 0 THEN out
    ELSE LET tup == from_bytes_record_header(file, rd, bt, ut)
             aln == ReadExact(file, tup.rd, 4 * tup.na)
             w == Pass2Write([data |-> out.data, pos |-> m[tup.bc].offset],
                             tup, aln.bytes, bt, ut)
         IN  Pass2All(file, aln.rd, n - 1, [m EXCEPT ![tup.bc].offset = w.pos], w, bt, ut)

\* the output buffer of collate_temporary_bucket_twopass on a file of n
\* records when cb_byte_map is iterated in the given order
TwoPassBuffer(file, n, order, bt, ut) ==
    LET p1 == Pass1All(file, [buf |-> << >>, pos |-> 0], n, << >>, 0, bt, ut)
        tb == p1.total + Len(order) * header_size
        lay == LayoutCells(order, p1.map, [data |-> Zeros(tb), pos |-> 0], 0)
    IN  Pass2All(file, [buf |-> p1.rd.buf, pos |-> 0], n, lay.map, lay.out, bt, ut).data

\* the cells of cb_byte_map after the first loop over a file of n records
TwoPassCells(file, n, bt, ut) ==
    DOMAIN Pass1All(file, [buf |-> << >>, pos |-> 0], n, << >>, 0, bt, ut).map

\* no record is held by the worker
NoRecord == [id |-> 0, umi |-> 0, refs |-> << >>]

\* a worker about to call process_corrected_cb_chunk on the chunk lst
ProcessWorker(bt, ut, w, lst) ==
    [kind |-> "process", pc |-> "start",
     file |-> ShardChunk(bt, ut, w, lst), recs |-> lst,
     rd |-> [buf |-> << >>, pos |-> 0], nrec |-> 0, done |-> 0,
     pend |-> NoRecord, bytes |-> << >>]

\* a worker in collate_temporary_bucket_twopass on the bucket file with the
\* records lst, about to write its output buffer to the writer;
\* cb_byte_map.iter_mut() has visited the cells in the given order
TwoPassWorker(bt, ut, w, lst, order) ==
    [kind |-> "twopass", pc |-> "wlock",
     file |-> ShardRecordBytes(bt, ut, w, lst, 1), recs |-> lst,
     rd |-> [buf |-> << >>, pos |-> 0], nrec |-> Len(lst), done |-> Len(lst),
     pend |-> NoRecord,
     bytes |-> TwoPassBuffer(ShardRecordBytes(bt, ut, w, lst, 1), Len(lst),
                             order, bt, ut)]

\* the records of the chunks of the process workers ws that correct to id
SharedCount(ws, cm, id) ==
    SumOver([w \in DOMAIN ws |->
                IF ws[w].kind = "process"
                THEN Cardinality({i \in 1 .. Len(ws[w].recs) :
                         ws[w].recs[i][1] \in DOMAIN cm /\ cm[ws[w].recs[i][1]] = id})
                ELSE 0],
            DOMAIN ws)

\* The caller's shared output cache: one CorrectedCbChunk per corrected
\* barcode that has records, counting down from the number of its records
\* in all chunks; lock is the worker that holds the entry, or 0.
SharedCache(ws, cm) ==
    [id \in {x \in {cm[b] : b \in DOMAIN cm} : SharedCount(ws, cm, x) > 0} |->
        [cell |-> from_label_and_counter(id, SharedCount(ws, cm, id)), lock |-> 0]]

\* where a worker goes after one more record, or after its final write
AfterEmit(wk) ==
    IF wk.kind = "twopass" \/ wk.done + 1 = wk.nrec THEN "done" ELSE "read"

\* the mutex of the output writer can be taken
WriterFreeAlways == TRUE
WriterFree == wmutex = 0

\* process_corrected_cb_chunk is called by worker w: it reads the chunk header
EmitStart(w) ==
    /\ workers[w].pc = "start"
    /\ LET wk == workers[w]
           h == ReadExact(wk.file, wk.rd, 8)
           n == FromLeBytes(SubSeq(h.bytes, 5, 8))
       IN  workers' = [workers EXCEPT ![w] =
               [wk EXCEPT !.rd = h.rd, !.nrec = n,
                          !.pc = IF n = 0 THEN "done" ELSE "read"]]
    /\ UNCHANGED <<ecache, wmutex, wout, emitted>>
    /\ UNCHANGED <<mapvars, colvars, shardvars, codecvars>>

\* one iteration of the loop up to output_cache.get_mut: the record is read
EmitRead(w) ==
    /\ workers[w].pc = "read"
    /\ LET wk == workers[w]
           tup == from_bytes_record_header(wk.file, wk.rd, bct, umit)
       IN  IF tup.bc \in DOMAIN correct_map
           THEN LET corrected_id == correct_map[tup.bc]
                    rr == from_bytes_with_header_keep_ori(
                              wk.file, tup.rd, tup.bc, tup.umi, tup.na, expected_ori)
                IN  IF corrected_id \in DOMAIN ecache
                    THEN workers' = [workers EXCEPT ![w] =
                             [wk EXCEPT !.rd = rr.rd, !.pc = "entry",
                                        !.pend = [id |-> corrected_id, umi |-> rr.umi,
                                                  refs |-> rr.refs]]]
                    ELSE workers' = [workers EXCEPT ![w] =
                             [wk EXCEPT !.rd = rr.rd, !.done = wk.done + 1,
                                        !.pc = AfterEmit(wk)]]
           ELSE workers' = [workers EXCEPT ![w] =
                    [wk EXCEPT !.rd = ReadExact(wk.file, tup.rd, 4 * tup.na).rd,
                               !.done = wk.done + 1, !.pc = AfterEmit(wk)]]
    /\ UNCHANGED <<ecache, wmutex, wout, emitted>>
    /\ UNCHANGED <<mapvars, colvars, shardvars, codecvars>>

\* output_cache.get_mut(corrected_id) and the updates of the entry; on the
\* last record of the barcode dump_chunk writes the header to the buffer and
\* the worker keeps the entry while it goes for the writer
EmitEntry(w) ==
    /\ workers[w].pc = "entry"
    /\ LET wk == workers[w]
           id == wk.pend.id
           r == ProcessIntoCell(ecache[id].cell, id,
                                [umi |-> wk.pend.umi, refs |-> wk.pend.refs], bct, umit)
       IN  /\ ecache[id].lock = 0
           /\ IF r.out = << >>
              THEN /\ ecache' = [ecache EXCEPT ![id].cell = r.v]
                   /\ workers' = [workers EXCEPT ![w] =
                          [wk EXCEPT !.pend = NoRecord, !.done = wk.done + 1,
                                     !.pc = AfterEmit(wk)]]
              ELSE /\ ecache' = [ecache EXCEPT ![id].cell = r.v, ![id].lock = w]
                   /\ workers' = [workers EXCEPT ![w] =
                          [wk EXCEPT !.bytes = r.out[1].bytes, !.pc = "wlock"]]
    /\ UNCHANGED <<wmutex, wout, emitted>>
    /\ UNCHANGED <<mapvars, colvars, shardvars, codecvars>>

\* owriter.lock(): the worker takes the mutex of the output writer
EmitLock(w) ==
    /\ workers[w].pc = "wlock"
    /\ WriterFree
    /\ wmutex' = w
    /\ workers' = [workers EXCEPT ![w].pc = "write"]
    /\ UNCHANGED <<ecache, wout, emitted>>
    /\ UNCHANGED <<mapvars, colvars, shardvars, codecvars>>

\* write_all(v.data.get_ref()) or write_all(output_buffer.get_ref()), the
\* first bytes it writes
EmitWriteHead(w) ==
    /\ workers[w].pc = "write"
    /\ wout' = wout \o FlushHead(workers[w].bytes)
    /\ workers' = [workers EXCEPT ![w].pc = "written"]
    /\ UNCHANGED <<ecache, wmutex, emitted>>
    /\ UNCHANGED <<mapvars, colvars, shardvars, codecvars>>

\* the rest of write_all with a guard of the writer that is never dropped
EmitWriteTailKeepsMutex(w) ==
    /\ workers[w].pc = "written"
    /\ LET wk == workers[w]
       IN  /\ wout' = wout \o FlushTail(wk.bytes)
           /\ emitted' = Append(emitted, [worker |-> w, bytes |-> wk.bytes])
           /\ workers' = [workers EXCEPT ![w] =
                  IF wk.kind = "process"
                  THEN [wk EXCEPT !.pc = "release"]
                  ELSE [wk EXCEPT !.pend = NoRecord, !.done = wk.done + 1,
                                  !.pc = AfterEmit(wk)]]
    /\ wmutex' = wmutex
    /\ UNCHANGED ecache
    /\ UNCHANGED <<mapvars, colvars, shardvars, codecvars>>

\* the rest of write_all; the guard of the writer drops at the end of the
\* statement.  In process_corrected_cb_chunk the worker still holds the entry
\* of the cache; collate_temporary_bucket_twopass is finished.
EmitWriteTail(w) ==
    /\ workers[w].pc = "written"
    /\ LET wk == workers[w]
       IN  /\ wout' = wout \o FlushTail(wk.bytes)
           /\ emitted' = Append(emitted, [worker |-> w, bytes |-> wk.bytes])
           /\ workers' = [workers EXCEPT ![w] =
                  IF wk.kind = "process"
                  THEN [wk EXCEPT !.pc = "release"]
                  ELSE [wk EXCEPT !.pend = NoRecord, !.done = wk.done + 1,
                                  !.pc = AfterEmit(wk)]]
    /\ wmutex' = 0
    /\ UNCHANGED ecache
    /\ UNCHANGED <<mapvars, colvars, shardvars, codecvars>>

\* after dump_chunk has returned: the entry v of the cache is released at
\* the end of the if-let block, and the loop goes on to the next record
EmitRelease(w) ==
    /\ workers[w].pc = "release"
    /\ LET wk == workers[w]
       IN  /\ ecache' = [ecache EXCEPT ![wk.pend.id].lock = 0]
           /\ workers' = [workers EXCEPT ![w] =
                  [wk EXCEPT !.pend = NoRecord, !.done = wk.done + 1,
                             !.pc = AfterEmit(wk)]]
    /\ UNCHANGED <<wmutex, wout, emitted>>
    /\ UNCHANGED <<mapvars, colvars, shardvars, codecvars>>

\* the workers that share an output writer are not in use
EmitIdle ==
    /\ workers = << >>
    /\ ecache = << >>
    /\ wmutex = 0
    /\ wout = << >>
    /\ emitted = << >>

\* ------------------------------------------------------------------------
\* The record decoders
\* ------------------------------------------------------------------------

\* the loop of ReadRecord::from_bytes over the entries in bytes: the flags
\* pushed to rec.dirs
RECURSIVE DirsOf(_)
DirsOf(bytes) ==
    IF bytes = << >> THEN << >>
    ELSE <<TopBitSet(SubSeq(bytes, 1, 4))>> \o DirsOf(SubSeq(bytes, 5, Len(bytes)))

\* the same loop: the reference ids pushed to rec.refs
RECURSIVE RefsOf(_)
RefsOf(bytes) ==
    IF bytes = << >> THEN << >>
    ELSE <<Low31(SubSeq(bytes, 1, 4))>> \o RefsOf(SubSeq(bytes, 5, Len(bytes)))

\* ReadRecord::from_bytes(reader, bct, umit): the record and the reader
\* after it
from_bytes(file, rd, bt, ut) ==
    LET r1 == ReadExact(file, rd, 4)
        r2 == read_into_u64(file, r1.rd, bt)
        r3 == read_into_u64(file, r2.rd, ut)
        r4 == ReadExact(file, r3.rd, 4 * FromLeBytes(r1.bytes))
    IN  [bc |-> r2.v, umi |-> r3.v, dirs |-> DirsOf(r4.bytes),
         refs |-> RefsOf(r4.bytes), rd |-> r4.rd]

\* from_bytes_keep_ori without the sort of rec.refs
from_bytes_keep_ori_unsorted(file, rd, bt, ut, ori) ==
    LET r1 == ReadExact(file, rd, 4)
        r2 == read_into_u64(file, r1.rd, bt)
        r3 == read_into_u64(file, r2.rd, ut)
        r4 == ReadExact(file, r3.rd, 4 * FromLeBytes(r1.bytes))
    IN  [bc |-> r2.v, umi |-> r3.v, dirs |-> << >>,
         refs |-> KeptRefs(r4.bytes, ori), rd |-> r4.rd]

\* ReadRecord::from_bytes_keep_ori(reader, bct, umit, expected_ori): the
\* record (dirs is never pushed to) and the reader after it
from_bytes_keep_ori(file, rd, bt, ut, ori) ==
    LET r1 == ReadExact(file, rd, 4)
        r2 == read_into_u64(file, r1.rd, bt)
        r3 == read_into_u64(file, r2.rd, ut)
        r4 == ReadExact(file, r3.rd, 4 * FromLeBytes(r1.bytes))
    IN  [bc |-> r2.v, umi |-> r3.v, dirs |-> << >>,
         refs |-> SortUnstable(KeptRefs(r4.bytes, ori)), rd |-> r4.rd]

\* the sequences over S of length at most n
SeqsUpTo(S, n) == UNION {[1 .. m -> S] : m \in 0 .. n}

\* the reference ids of the wire records of the model: one byte, two
\* bytes, and the largest 31-bit id
CodecRefIds == {1, 258, 2147483647}

\* the RadIntId pairs (bct, umit) of the wire records of the model
CodecTypePairs == {<<"U8", "U8">>, <<"U32", "U16">>}

\* an alignment entry on the wire: the id in the low 31 bits, the strand
\* flag (forward) in the top bit
WireEntry(a) ==
    LET b == ToLeBytes(a.id, 4)
    IN  <<b[1], b[2], b[3], b[4] + (IF a.fw THEN 128 ELSE 0)>>

RECURSIVE WireEntries(_)
WireEntries(alns) ==
    IF alns = << >> THEN << >> ELSE WireEntry(Head(alns)) \o WireEntries(Tail(alns))

\* a ReadRecord on the wire: na, bc, umi, then the na entries
WireRecord(bt, ut, bc, umi, alns) ==
    ToLeBytes(Len(alns), 4) \o write_to(bt, bc) \o write_to(ut, umi) \o WireEntries(alns)

\* the wire records handed to the record decoders, with the expected
\* orientation of the call
RecordInputs ==
    {[kind |-> "record", bct |-> tp[1], umit |-> tp[2], ori |-> o,
      bc |-> 5, umi |-> 10, alns |-> a] :
        tp \in CodecTypePairs, o \in Strands,
        a \in SeqsUpTo([id : CodecRefIds, fw : BOOLEAN], MaxCodecAln)}

\* a reader at the start of its file
FreshReader == [buf |-> << >>, pos |-> 0]

\* the file of a record input
RecordFile(a) == WireRecord(a.bct, a.umit, a.bc, a.umi, a.alns)

\* ReadRecord::from_bytes is called on the record
CallFromBytes ==
    /\ call.fn = "none"
    /\ call.arg.kind = "record"
    /\ call' = [call EXCEPT
                   !.fn = "from_bytes",
                   !.ret = from_bytes(RecordFile(call.arg), FreshReader,
                                      call.arg.bct, call.arg.umit)]
    /\ UNCHANGED <<mapvars, colvars, shardvars, emitvars>>

\* ReadRecord::from_bytes_keep_ori is called on the record
CallFromBytesKeepOri ==
    /\ call.fn = "none"
    /\ call.arg.kind = "record"
    /\ call' = [call EXCEPT
                   !.fn = "from_bytes_keep_ori",
                   !.ret = from_bytes_keep_ori(RecordFile(call.arg), FreshReader,
                               call.arg.bct, call.arg.umit, call.arg.ori)]
    /\ UNCHANGED <<mapvars, colvars, shardvars, emitvars>>

\* ReadRecord::from_bytes_record_header, then
\* ReadRecord::from_bytes_with_header_keep_ori, are called on the record
CallFromBytesWithHeaderKeepOri ==
    /\ call.fn = "none"
    /\ call.arg.kind = "record"
    /\ LET tup == from_bytes_record_header(RecordFile(call.arg), FreshReader,
                                           call.arg.bct, call.arg.umit)
       IN  call' = [call EXCEPT
                       !.fn = "from_bytes_with_header_keep_ori",
                       !.ret = from_bytes_with_header_keep_ori(RecordFile(call.arg),
                                   tup.rd, tup.bc, tup.umi, tup.na, call.arg.ori)]
    /\ UNCHANGED <<mapvars, colvars, shardvars, emitvars>>

\* ------------------------------------------------------------------------
\* RadHeader, TagSection, Chunk
\* ------------------------------------------------------------------------

\* the length of buf in RadHeader::from_bytes
HeaderBufSize == 65536

\* the length of buf in TagDesc::from_bytes
TagBufSize == 257

\* b is a continuation byte 0x80..0xBF
Cont(b) == b >= 128 /\ b <= 191

\* the length of the encoded character that the lead byte h starts, 0 when
\* h starts none
CharLen(h) ==
    IF h <= 127 THEN 1
    ELSE IF h >= 194 /\ h <= 223 THEN 2
    ELSE IF h >= 224 /\ h <= 239 THEN 3
    ELSE IF h >= 240 /\ h <= 244 THEN 4
    ELSE 0

\* std::str::from_utf8(bytes).is_ok(): bytes is a sequence of well-formed
\* UTF-8 encodings (no overlong forms, no surrogates, nothing above
\* U+10FFFF): every byte that is not a continuation byte starts a character
\* that is complete, and every continuation byte belongs to one
Utf8Valid(b) ==
    \A i \in 1 .. Len(b) :
        IF Cont(b[i])
        THEN \E d \in 1 .. 3 : i - d >= 1 /\ ~Cont(b[i - d]) /\ CharLen(b[i - d]) > d
                               /\ \A e \in 1 .. d - 1 : Cont(b[i - e])
        ELSE /\ CharLen(b[i]) > 0
             /\ i + CharLen(b[i]) - 1 <= Len(b)
             /\ \A e \in 1 .. CharLen(b[i]) - 1 : Cont(b[i + e])
             /\ (b[i] = 224 => b[i + 1] >= 160)
             /\ (b[i] = 237 => b[i + 1] <= 159)
             /\ (b[i] = 240 => b[i + 1] >= 144)
             /\ (b[i] = 244 => b[i + 1] <= 143)

\* reader.read_exact(n bytes).unwrap() does not panic: the stream holds n
\* more bytes
ReadOk(file, rd, n) == Len(ReaderStream(file, rd)) >= n

\* the outcome of a call that panicked
Panicked == [outcome |-> "panic"]

\* the while loop of RadHeader::from_bytes with left names still to read:
\* a String is held as its UTF-8 bytes
RECURSIVE ReadRefNames(_, _, _, _)
ReadRefNames(file, rd, left, names) ==
    IF left = 0 THEN [outcome |-> "ok", names |-> names, rd |-> rd]
    ELSE IF ~ReadOk(file, rd, 2) THEN Panicked
    ELSE LET r1 == ReadExact(file, rd, 2)
             l == FromLeBytes(r1.bytes)
         IN  IF l > HeaderBufSize \/ ~ReadOk(file, r1.rd, l) THEN Panicked
             ELSE LET r2 == ReadExact(file, r1.rd, l)
                  IN  IF ~Utf8Valid(r2.bytes) THEN Panicked
                      ELSE ReadRefNames(file, r2.rd, left - 1, Append(names, r2.bytes))

\* RadHeader::from_bytes(reader)
RadHeader_from_bytes(file, rd) ==
    IF ~ReadOk(file, rd, 9) THEN Panicked
    ELSE LET r1 == ReadExact(file, rd, 9)
             ref_count == FromLeBytes(SubSeq(r1.bytes, 2, 9))
             ns == ReadRefNames(file, r1.rd, ref_count, << >>)
         IN  IF ns.outcome = "panic" THEN Panicked
             ELSE IF ~ReadOk(file, ns.rd, 8) THEN Panicked
             ELSE [outcome |-> "ok",
                   v |-> [is_paired |-> r1.bytes[1], ref_count |-> ref_count,
                          ref_names |-> ns.names,
                          num_chunks |-> FromLeBytes(ReadExact(file, ns.rd, 8).bytes)],
                   rd |-> ReadExact(file, ns.rd, 8).rd]

\* TagDesc::from_bytes(reader): the slice buf[0..str_len + 1] is taken from
\* a buffer of TagBufSize bytes
TagDesc_from_bytes(file, rd) ==
    IF ~ReadOk(file, rd, 2) THEN Panicked
    ELSE LET r1 == ReadExact(file, rd, 2)
             str_len == FromLeBytes(r1.bytes)
         IN  IF str_len + 1 > TagBufSize \/ ~ReadOk(file, r1.rd, str_len + 1)
             THEN Panicked
             ELSE LET r2 == ReadExact(file, r1.rd, str_len + 1)
                  IN  IF ~Utf8Valid(SubSeq(r2.bytes, 1, str_len)) THEN Panicked
                      ELSE [outcome |-> "ok",
                            v |-> [name |-> SubSeq(r2.bytes, 1, str_len),
                                   typeid |-> r2.bytes[str_len + 1]],
                            rd |-> r2.rd]

\* the loop of TagSection::from_bytes with left tags still to read
RECURSIVE ReadTags(_, _, _, _)
ReadTags(file, rd, left, tags) ==
    IF left = 0 THEN [outcome |-> "ok", v |-> [tags |-> tags], rd |-> rd]
    ELSE LET t == TagDesc_from_bytes(file, rd)
         IN  IF t.outcome = "panic" THEN Panicked
             ELSE ReadTags(file, t.rd, left - 1, Append(tags, t.v))

\* TagSection::from_bytes(reader)
TagSection_from_bytes(file, rd) ==
    IF ~ReadOk(file, rd, 2) THEN Panicked
    ELSE LET r1 == ReadExact(file, rd, 2)
         IN  ReadTags(file, r1.rd, FromLeBytes(r1.bytes), << >>)

\* ReadRecord::from_bytes does not panic: the stream holds the record
RecordReadOk(file, rd, bt, ut) ==
    LET hdr == 4 + bytes_for_type(bt) + bytes_for_type(ut)
    IN  /\ ReadOk(file, rd, hdr)
        /\ ReadOk(file, rd, hdr + 4 * FromLeBytes(ReadExact(file, rd, 4).bytes))

\* the loop of Chunk::from_bytes with left records still to read
RECURSIVE ReadReads(_, _, _, _, _, _)
ReadReads(file, rd, left, reads, bt, ut) ==
    IF left = 0 THEN [outcome |-> "ok", reads |-> reads, rd |-> rd]
    ELSE IF ~RecordReadOk(file, rd, bt, ut) THEN Panicked
    ELSE LET r == from_bytes(file, rd, bt, ut)
         IN  ReadReads(file, r.rd, left - 1,
                       Append(reads, [bc |-> r.bc, umi |-> r.umi,
                                      dirs |-> r.dirs, refs |-> r.refs]),
                       bt, ut)

\* Chunk::from_bytes(reader, bct, umit)
Chunk_from_bytes(file, rd, bt, ut) ==
    IF ~ReadOk(file, rd, 8) THEN Panicked
    ELSE LET r1 == ReadExact(file, rd, 8)
             n == FromLeBytes(SubSeq(r1.bytes, 5, 8))
             rs == ReadReads(file, r1.rd, n, << >>, bt, ut)
         IN  IF rs.outcome = "panic" THEN Panicked
             ELSE [outcome |-> "ok",
                   v |-> [nbytes |-> FromLeBytes(SubSeq(r1.bytes, 1, 4)),
                          nrec |-> n, reads |-> rs.reads],
                   rd |-> rs.rd]

\* write_str_bin(v, type_id, owriter): the length of v in the width of
\* type_id, then the bytes of v
write_str_bin(v, type_id) == ToLeBytes(Len(v), bytes_for_type(type_id)) \o v

\* The serialized forms, from the file layout of the specification.

RECURSIVE EncodeNames(_)
EncodeNames(names) ==
    IF names = << >> THEN << >>
    ELSE write_str_bin(Head(names), "U16") \o EncodeNames(Tail(names))

EncodeRadHeader(h) ==
    <<h.is_paired>> \o ToLeBytes(h.ref_count, 8) \o EncodeNames(h.ref_names)
        \o ToLeBytes(h.num_chunks, 8)

RECURSIVE EncodeTags(_)
EncodeTags(tags) ==
    IF tags = << >> THEN << >>
    ELSE write_str_bin(Head(tags).name, "U16") \o <<Head(tags).typeid>>
             \o EncodeTags(Tail(tags))

EncodeTagSection(ts) == ToLeBytes(Len(ts.tags), 2) \o EncodeTags(ts.tags)

\* the entries of a decoded record: the strand flag in the top bit, the
\* reference id in the low 31 bits
EncodeAlns(r) ==
    WireEntries([j \in 1 .. Len(r.refs) |-> [id |-> r.refs[j], fw |-> r.dirs[j]]])

RECURSIVE EncodeReads(_, _, _)
EncodeReads(reads, bt, ut) ==
    IF reads = << >> THEN << >>
    ELSE ToLeBytes(Len(Head(reads).refs), 4) \o write_to(bt, Head(reads).bc)
             \o write_to(ut, Head(reads).umi) \o EncodeAlns(Head(reads))
             \o EncodeReads(Tail(reads), bt, ut)

EncodeChunk(c, bt, ut) ==
    ToLeBytes(c.nbytes, 4) \o ToLeBytes(c.nrec, 4) \o EncodeReads(c.reads, bt, ut)

\* Inputs.

\* a name of n bytes: the letter a, n times
LongName(n) == [j \in 1 .. n |-> 97]

\* reference names as bytes: none, "chr1", U+00E9 in two bytes, and three
\* that are not UTF-8 (a byte that never occurs, a lead byte without its
\* continuation, a continuation byte after a letter)
NameBytes ==
    {<< >>, <<99, 104, 114, 49>>, <<195, 169>>, <<255>>, <<195>>, <<99, 128>>}

\* the headers handed to RadHeader::from_bytes, as the values serialized
HeaderInputs ==
    {[kind |-> "header",
      x |-> [is_paired |-> p, ref_count |-> Len(ns), ref_names |-> ns,
             num_chunks |-> c]] :
        p \in {0, 1}, c \in {0, 1, 300}, ns \in SeqsUpTo(NameBytes, MaxNames)}

\* tag names: none, "bc", the longest that fits buf with its type id, and
\* one byte more
TagNames == {<< >>, <<98, 99>>, LongName(TagBufSize - 1), LongName(TagBufSize)}

\* the tag sections handed to TagSection::from_bytes
TagInputs ==
    {[kind |-> "tags", x |-> [tags |-> ts]] :
        ts \in SeqsUpTo([name : TagNames, typeid : {1, 4}], MaxTags)}

\* the decoded records of the chunks of the model
ChunkReads ==
    {[bc |-> 5, umi |-> u, dirs |-> [j \in 1 .. Len(a) |-> a[j].fw],
      refs |-> [j \in 1 .. Len(a) |-> a[j].id]] :
        u \in {10}, a \in SeqsUpTo({[id |-> 0, fw |-> TRUE], [id |-> 1, fw |-> FALSE]},
                                   MaxChunkAln)}

\* the size of a serialized chunk: its header and its records
SerializedSize(reads, bt, ut) == 8 + Len(EncodeReads(reads, bt, ut))

\* the chunks handed to Chunk::from_bytes
ChunkInputs ==
    {[kind |-> "chunk", bct |-> tp[1], umit |-> tp[2],
      x |-> [nbytes |-> SerializedSize(rs, tp[1], tp[2]), nrec |-> Len(rs), reads |-> rs]] :
        tp \in CodecTypePairs, rs \in SeqsUpTo(ChunkReads, MaxChunkRecs)}

\* RadHeader::from_bytes is called on the serialized header
CallRadHeaderFromBytes ==
    /\ call.fn = "none"
    /\ call.arg.kind = "header"
    /\ call' = [call EXCEPT
                   !.fn = "RadHeader_from_bytes",
                   !.ret = RadHeader_from_bytes(EncodeRadHeader(call.arg.x), FreshReader)]
    /\ UNCHANGED <<mapvars, colvars, shardvars, emitvars>>

\* RadHeader::get_size(&self): size_of::<u8>() + size_of::<u64>(), the byte
\* length of every name, size_of::<u64>()
RECURSIVE NameLens(_)
NameLens(names) ==
    IF names = << >> THEN 0 ELSE Len(Head(names)) + NameLens(Tail(names))

get_size(h) == (1 + 8) + NameLens(h.ref_names) + 8

\* the bytes a reader in state rd has delivered: what it took from the file
\* less what it still holds
BytesConsumed(rd) == rd.pos - Len(rd.buf)

\* get_size is called on the header that RadHeader::from_bytes returned
CallGetSize ==
    /\ call.fn = "RadHeader_from_bytes"
    /\ call.ret.outcome = "ok"
    /\ call' = [call EXCEPT
                   !.fn = "get_size",
                   !.ret = [outcome |-> "ok", v |-> call.ret.v, rd |-> call.ret.rd,
                            size |-> get_size(call.ret.v)]]
    /\ UNCHANGED <<mapvars, colvars, shardvars, emitvars>>

\* TagSection::from_bytes is called on the serialized tag section
CallTagSectionFromBytes ==
    /\ call.fn = "none"
    /\ call.arg.kind = "tags"
    /\ call' = [call EXCEPT
                   !.fn = "TagSection_from_bytes",
                   !.ret = TagSection_from_bytes(EncodeTagSection(call.arg.x), FreshReader)]
    /\ UNCHANGED <<mapvars, colvars, shardvars, emitvars>>

\* Chunk::from_bytes is called on the serialized chunk
CallChunkFromBytes ==
    /\ call.fn = "none"
    /\ call.arg.kind = "chunk"
    /\ call' = [call EXCEPT
                   !.fn = "Chunk_from_bytes",
                   !.ret = Chunk_from_bytes(
                               EncodeChunk(call.arg.x, call.arg.bct, call.arg.umit),
                               FreshReader, call.arg.bct, call.arg.umit)]
    /\ UNCHANGED <<mapvars, colvars, shardvars, emitvars>>

\* ------------------------------------------------------------------------
\* RadIntId::write_to and read_into_u64, back to back
\* ------------------------------------------------------------------------

\* the values written: around the largest value of one, two and three
\* bytes, and the largest value of the model
IntValues == {0, 1, 255, 256, 257, 65535, 65536, 65537, 16777215, 16777216,
              2147483647}

\* the (type, value) pairs handed to write_to
IntInputs == {[kind |-> "int", w |-> w, v |-> v] : w \in IntTypes, v \in IntValues}

\* w.write_to(v, owriter) into an empty writer, then read_into_u64(reader, w)
\* on a reader over the bytes written
CallWriteRead ==
    /\ call.fn = "none"
    /\ call.arg.kind = "int"
    /\ LET bytes == write_to(call.arg.w, call.arg.v)
       IN  call' = [call EXCEPT
                       !.fn = "write_read",
                       !.ret = [bytes |-> bytes,
                                v |-> read_into_u64(bytes, FreshReader, call.arg.w).v]]
    /\ UNCHANGED <<mapvars, colvars, shardvars, emitvars>>

\* no codec function was called
NoCall == [fn |-> "none", arg |-> << >>, ret |-> << >>]
CodecIdle == call = NoCall

\* ------------------------------------------------------------------------
\* Specifications
\* ------------------------------------------------------------------------

\* the subsystems other than the lookup map and the collators are not in use
OthersIdle == ShardIdle /\ EmitIdle /\ CodecIdle

MapInit == MapStart /\ bclen \in 1 .. MaxBclen /\ ColIdle /\ OthersIdle

MapNext ==
    \/ \E b \in Kmers(bclen) : PushBarcode(b)
    \/ New
    \/ \E q \in Kmers(bclen) : FindExact(q)
    \/ \E q \in Kmers(bclen), te \in BOOLEAN : FindNeighbors(q, te)

MapSpec == MapInit /\ [][MapNext]_vars

CollateInit == ColInit /\ MapIdle /\ OthersIdle

CollateNext ==
    \/ \E bc \in CellBarcodes, na \in 0 .. MaxAln : AppendRecord(bc, na)
    \/ StartTwoPass
    \/ Pass1Record
    \/ Layout
    \/ Pass2Record
    \/ \E compress \in BOOLEAN : WriteOut(compress)
    \/ StartCollate
    \/ CollateRecord
    \/ \E key \in DOMAIN output_cache : DumpCell(key)
    \/ \E cm \in CorrectMaps, ori \in Strands : StartProcess(cm, ori)
    \/ ProcessRecord

CollateSpec == CollateInit /\ [][CollateNext]_vars

\* one producer thread runs the sharder on a chunk, for every RadIntId pair,
\* correction map, expected orientation, output cache and flush limit
ShardInit ==
    /\ MapIdle /\ ColUnused /\ EmitIdle /\ CodecIdle
    /\ \E p \in ShardTypePairs : bct = p[1] /\ umit = p[2]
    /\ correct_map \in CorrectMaps
    /\ expected_ori \in Strands
    /\ bucket_of \in BucketMaps
    /\ flush_limit \in FlushLimits
    /\ \E l \in RecLists(MaxShardRecs, MaxShardAln) :
          threads = (1 :> NewThread(bct, umit, 1, l))
    /\ buckets = [b \in BucketIds |-> NewBucket]

\* two producer threads run the sharder concurrently against the same
\* buckets; every record has one alignment and a bucket
ShardConcInit ==
    /\ MapIdle /\ ColUnused /\ EmitIdle /\ CodecIdle
    /\ bct = "U8" /\ umit = "U8"
    /\ correct_map = (1 :> 1) @@ (2 :> 2)
    /\ expected_ori = "Unknown"
    /\ bucket_of = (1 :> 0) @@ (2 :> 1)
    /\ flush_limit \in FlushLimits
    /\ \E l1, l2 \in UnitLists(MaxConcRecs) :
          threads = (1 :> NewThread(bct, umit, 1, l1)) @@ (2 :> NewThread(bct, umit, 2, l2))
    /\ buckets = [b \in BucketIds |-> NewBucket]

ShardNext ==
    \/ \E t \in DOMAIN threads : ShardStart(t)
    \/ \E t \in DOMAIN threads : ShardRead(t)
    \/ \E t \in DOMAIN threads : ShardLock(t)
    \/ \E t \in DOMAIN threads : ShardFlushHead(t)
    \/ \E t \in DOMAIN threads : ShardFlushTail(t)
    \/ \E t \in DOMAIN threads : ShardAppend(t)
    \/ \E t \in DOMAIN threads : ShardCount(t)

ShardSpec == ShardInit /\ [][ShardNext]_vars

\* two workers share the output cache and the output writer: worker 1 runs
\* process_corrected_cb_chunk on its chunk; worker 2 does too, or is at the
\* final write of collate_temporary_bucket_twopass on its bucket file
EmitInit ==
    /\ MapIdle /\ ColUnused /\ ShardIdle /\ CodecIdle
    /\ bct = "U8" /\ umit = "U8"
    /\ correct_map \in {(1 :> 1) @@ (2 :> 2), (1 :> 1) @@ (2 :> 1)}
    /\ expected_ori \in {"Unknown", "Forward"}
    /\ \E l1, l2 \in UnitLists(MaxEmitRecs) :
          \/ workers = (1 :> ProcessWorker(bct, umit, 1, l1))
                       @@ (2 :> ProcessWorker(bct, umit, 2, l2))
          \/ \E order \in Orders(TwoPassCells(ShardRecordBytes(bct, umit, 2, l2, 1),
                                                    Len(l2), bct, umit)) :
                workers = (1 :> ProcessWorker(bct, umit, 1, l1))
                          @@ (2 :> TwoPassWorker(bct, umit, 2, l2, order))
    /\ ecache = SharedCache(workers, correct_map)
    /\ wmutex = 0
    /\ wout = << >>
    /\ emitted = << >>

EmitNext ==
    \/ \E w \in DOMAIN workers : EmitStart(w)
    \/ \E w \in DOMAIN workers : EmitRead(w)
    \/ \E w \in DOMAIN workers : EmitEntry(w)
    \/ \E w \in DOMAIN workers : EmitLock(w)
    \/ \E w \in DOMAIN workers : EmitWriteHead(w)
    \/ \E w \in DOMAIN workers : EmitWriteTail(w)
    \/ \E w \in DOMAIN workers : EmitRelease(w)

EmitSpec == EmitInit /\ [][EmitNext]_vars

ShardConcSpec == ShardConcInit /\ [][ShardNext]_vars

\* Workers under fair scheduling: two workers that share the output cache
\* and the output writer, or two producer threads that share the buckets.
\* Each is a thread of its own, so a step it can take is taken in the end.
ConcInit == EmitInit \/ ShardConcInit

ConcNext == EmitNext \/ ShardNext

\* worker w can take its next step: it is not done, the entry it asks
\* for is free (get_mut blocks otherwise), the writer mutex it asks for is
\* free (lock blocks otherwise)
WorkerCanStep(w) ==
    /\ w \in DOMAIN workers
    /\ CASE workers[w].pc = "done" -> FALSE
         [] workers[w].pc = "entry" -> ecache[workers[w].pend.id].lock = 0
         [] workers[w].pc = "wlock" -> WriterFree
         [] OTHER -> TRUE

\* producer thread t can take its next step: it has neither returned nor
\* panicked, and the bucket mutex it asks for is free
ThreadCanStep(t) ==
    /\ t \in DOMAIN threads
    /\ CASE threads[t].pc \in {"done", "panicked"} -> FALSE
         [] threads[t].pc = "lock" -> BucketFree(threads[t].pend.bucket)
         [] OTHER -> TRUE

\* a step of worker w, of producer thread t
WorkerStep(w) == w \in DOMAIN workers /\ workers'[w] # workers[w]
ThreadStep(t) == t \in DOMAIN threads /\ threads'[t] # threads[t]

\* the ids of the workers and of the producer threads
ConcIds == {1, 2}

\* weak fairness of the steps of each worker and thread, with the condition
\* under which the step is enabled written out (WorkerCanStep, ThreadCanStep):
\* none stays able to step for ever without stepping.  The operating system
\* schedules every runnable thread, and a thread blocked on a mutex or on an
\* entry runs again once the holder has released it.
ConcFairSpec ==
    /\ ConcInit
    /\ [][ConcNext]_vars
    /\ \A i \in ConcIds :
          /\ ([]<>(~WorkerCanStep(i)) \/ []<><<WorkerStep(i)>>_vars)
          /\ ([]<>(~ThreadCanStep(i)) \/ []<><<ThreadStep(i)>>_vars)

\* the inputs of the codec functions
CodecInputs ==
    RecordInputs \cup HeaderInputs \cup TagInputs \cup ChunkInputs \cup IntInputs

\* a codec function is about to be called on one of the inputs
CodecInit ==
    /\ MapIdle /\ ColIdle /\ ShardIdle /\ EmitIdle
    /\ \E a \in CodecInputs : call = [fn |-> "none", arg |-> a, ret |-> << >>]

CodecNext ==
    \/ CallFromBytes
    \/ CallFromBytesKeepOri
    \/ CallFromBytesWithHeaderKeepOri
    \/ CallRadHeaderFromBytes
    \/ CallTagSectionFromBytes
    \/ CallChunkFromBytes
    \/ CallGetSize
    \/ CallWriteRead

CodecSpec == CodecInit /\ [][CodecNext]_vars

\* ------------------------------------------------------------------------
\* Properties of the BarcodeLookupMap
\* ------------------------------------------------------------------------

\* nucleotide Hamming distance of two k-mers of length len
RECURSIVE Hamming(_, _, _)
Hamming(a, b, len) ==
    IF len = 0 THEN 0
    ELSE (IF a % 4 # b % 4 THEN 1 ELSE 0) + Hamming(a \div 4, b \div 4, len - 1)

\* the members of the map at distance exactly 1 from q
Neighbors1(q) == {b \in permit : Hamming(b, q, bclen) = 1}

\* the 0-based indices of barcodes
BarcodeIdx == 0 .. (Len(barcodes) - 1)

\* the number of Ok searches among the first j probes
RECURSIVE HitsUpTo(_, _)
HitsUpTo(pr, j) ==
    IF j = 0 THEN 0 ELSE (IF pr[j].hit THEN 1 ELSE 0) + HitsUpTo(pr, j - 1)

\* C1: after new(kv, bclen), for every barcode length (even or odd) and every
\* b of the permit list, find_exact(b) returns Some(i) with barcodes[i] = b.
C1_FindExactFindsPermitted ==
    (res.op = "find_exact" /\ res.query \in permit)
        => (res.ret # << >> /\ barcodes[res.ret[1] + 1] = res.query)

\* C2: after new, for every prefix value p the slice
\* barcodes[offsets[p] .. offsets[p+1]] holds exactly the barcodes whose
\* prefix (b >> 2*suffix_len) is p.
C2_SlicesHoldTheirPrefix ==
    mpc # "input" =>
        \A p \in 0 .. (Pow(4, prefix_len(bclen)) - 1) :
            {i \in BarcodeIdx : offsets[p] <= i /\ i < offsets[p + 1]}
                = {i \in BarcodeIdx : Shr(barcodes[i + 1], suffix_bits(bclen)) = p}

\* C3: the offsets table built by new has 4^prefix_len + 1 entries, is
\* non-decreasing, starts at 0 and ends at len(barcodes), for every permit
\* list (empty, with duplicates) and every barcode length.
C3_OffsetsTable ==
    mpc # "input" =>
        LET last == Pow(4, prefix_len(bclen))
        IN  /\ DOMAIN offsets = 0 .. last
            /\ \A p \in 0 .. (last - 1) : offsets[p] <= offsets[p + 1]
            /\ offsets[0] = 0
            /\ offsets[last] = Len(barcodes)

\* C3 witness: a map built from a list with a duplicate and a barcode of another
\* prefix
C3_Witness ==
    /\ mpc = "built"
    /\ Len(barcodes) = 3
    /\ barcodes[1] = barcodes[2]
    /\ Shr(barcodes[3], suffix_bits(bclen)) # Shr(barcodes[1], suffix_bits(bclen))

\* C4: a query q (taken here not to be a member itself) at distance exactly 1
\* from exactly one member: find_neighbors(q, true) returns count 1 and
\* Some(i) with barcodes[i] at distance 1 from q.
C4_UniqueNeighborFound ==
    (/\ res.op = "find_neighbors"
     /\ res.try_exact
     /\ res.query \notin permit
     /\ Cardinality(Neighbors1(res.query)) = 1)
        => (/\ res.num = 1
            /\ res.ret # << >>
            /\ Hamming(barcodes[res.ret[1] + 1], res.query, bclen) = 1)

\* C5: a query q at distance 1 from two or more members: find_neighbors
\* returns count 2 (taken here in the cases where the exact search does not
\* answer first: try_exact is false or q is not a member).
C5_AmbiguousNeighborsCounted ==
    (/\ res.op = "find_neighbors"
     /\ ~(res.try_exact /\ res.query \in permit)
     /\ Cardinality(Neighbors1(res.query)) >= 2)
        => res.num = 2

\* C6: find_neighbors does not enumerate past the second hit: the count it
\* returns is 0, 1 or 2, and no mutated k-mer is searched once two have been
\* found.
C6_StopsAtSecondHit ==
    res.op = "find_neighbors" =>
        /\ res.num \in {0, 1, 2}
        /\ \A j \in 1 .. Len(res.probes) : HitsUpTo(res.probes, j - 1) < 2

\* C6 witness: three members are one mismatch away from the query, two were
\* found and the search stopped before the last possible probe
C6_Witness ==
    /\ res.op = "find_neighbors"
    /\ res.num = 2
    /\ Cardinality(Neighbors1(res.query)) >= 3
    /\ Len(res.probes) < 3 * bclen
    /\ res.probes[Len(res.probes)].hit

\* ------------------------------------------------------------------------
\* Properties of the two-pass collator
\* ------------------------------------------------------------------------

\* the distinct barcodes of the input file
DistinctBarcodes == {recs[n].bc : n \in 1 .. Len(recs)}

\* the encoded records of barcode b, in input order, as on the input
RECURSIVE RecordsOf(_, _)
RecordsOf(rs, b) ==
    IF rs = << >> THEN << >>
    ELSE (IF Head(rs).bc = b THEN Head(rs).bytes ELSE << >>) \o RecordsOf(Tail(rs), b)

CountOf(b) == Cardinality({n \in 1 .. Len(recs) : recs[n].bc = b})

\* a chunk: header (nbytes, nrec), then the encoded records
ChunkBytes(nbytes, n, records) == ToLeBytes(nbytes, 4) \o ToLeBytes(n, 4) \o records

\* the chunk of barcode b that holds b's input records in input order
ChunkOf(b) ==
    ChunkBytes(8 + Len(RecordsOf(recs, b)), CountOf(b), RecordsOf(recs, b))

RECURSIVE ChunksInOrder(_)
ChunksInOrder(order) ==
    IF order = << >> THEN << >>
    ELSE ChunkOf(Head(order)) \o ChunksInOrder(Tail(order))

\* what the collator wrote to the output writer (the uncompressed bytes)
Written == owriter[Len(owriter)].bytes

\* C7: the output of the two-pass collator is one contiguous chunk per distinct
\* input barcode, each visited once, and the chunk of a barcode holds that
\* barcode's records in input order, byte for byte as on the input.
C7_OneChunkPerBarcode ==
    cpc = "done" =>
        /\ layout \in Orders(DistinctBarcodes)
        /\ Written = ChunksInOrder(layout)

\* C7 witness: three records with the barcodes interleaved (x, y, x), with
\* alignments, and the cell of y laid out first
C7_Witness ==
    /\ cpc = "done"
    /\ Len(recs) = 3
    /\ recs[1].bc = recs[3].bc
    /\ recs[2].bc # recs[1].bc
    /\ recs[1].na > 0
    /\ recs[3].na > 0
    /\ layout[1] = recs[2].bc

\* the bytes of a record with na alignments in a chunk of the run:
\* 4 + sizeof(bc) + sizeof(umi) + 4 * na
RecordSize(na) == 4 + bytes_for_type(bct) + bytes_for_type(umit) + 4 * na

\* the position after n records that start at pos (0-based) in bytes, read
\* with each record's own na; -1 when a record runs past the end
RECURSIVE RecordsEnd(_, _, _)
RecordsEnd(bytes, pos, n) ==
    IF n = 0 THEN pos
    ELSE IF pos + 4 > Len(bytes) THEN -1
    ELSE LET na == FromLeBytes(SubSeq(bytes, pos + 1, pos + 4))
         IN  IF pos + RecordSize(na) > Len(bytes) THEN -1
             ELSE RecordsEnd(bytes, pos + RecordSize(na), n - 1)

\* bytes, from pos on, is a sequence of chunks, each with a header
\* (nbytes, nrec) followed by exactly nrec records that end at nbytes
RECURSIVE ChunksWellFormed(_, _)
ChunksWellFormed(bytes, pos) ==
    IF pos = Len(bytes) THEN TRUE
    ELSE /\ pos + 8 <= Len(bytes)
         /\ LET nbytes == FromLeBytes(SubSeq(bytes, pos + 1, pos + 4))
                nr == FromLeBytes(SubSeq(bytes, pos + 5, pos + 8))
            IN  /\ nbytes >= 8
                /\ RecordsEnd(bytes, pos + 8, nr) = pos + nbytes
                /\ ChunksWellFormed(bytes, pos + nbytes)

\* a write of dump_chunk is one chunk: its header's nbytes is the whole write
OneChunk(bytes) ==
    /\ Len(bytes) >= 8
    /\ FromLeBytes(SubSeq(bytes, 1, 4)) = Len(bytes)

\* C8: every chunk that reaches the output writer, from the two-pass
\* collator or from dump_chunk after collate_temporary_bucket or in
\* process_corrected_cb_chunk, starts with a header (nbytes, nrec) where nrec
\* is the number of records that follow and nbytes is 8 plus the sum over
\* those records of 4 + sizeof(bc) + sizeof(umi) + 4 * na.
C8_ChunkHeadersConsistent ==
    \A n \in 1 .. Len(owriter) :
        /\ ChunksWellFormed(owriter[n].bytes, 0)
        /\ cpc \in {"collate", "process"} => OneChunk(owriter[n].bytes)

\* process_corrected_cb_chunk dumped a chunk for a barcode with two records
\* of one alignment each, after the orientation filter emptied the last of
\* them: the chunk holds one record with one alignment
C8_Witness ==
    /\ cpc = "process"
    /\ expected_ori = "Forward"
    /\ Len(recs) = 2
    /\ recs[1].na = 1 /\ recs[2].na = 1
    /\ Len(owriter) = 1
    /\ FromLeBytes(SubSeq(owriter[1].bytes, 5, 8)) = 1
    /\ Len(owriter[1].bytes) = 8 + RecordSize(1)

\* the input of scenario 5 has been collated
ScenarioDone ==
    cpc = "done" /\ recs = ScenarioRecs /\ bct = "U32" /\ umit = "U32"

\* the output of scenario 5 with region sizes sa for A and sb for B, the
\* two cells in either order
ScenarioOutputs(sa, sb) ==
    LET ca == ChunkBytes(sa, 2, ScenarioRecs[1].bytes \o ScenarioRecs[3].bytes)
        cb == ChunkBytes(sb, 2, ScenarioRecs[2].bytes \o ScenarioRecs[4].bytes)
    IN  {ca \o cb, cb \o ca}

\* C9 as stated: on the input [A,B,A,B], na = [1,2,3,1], bct = umit = U32,
\* region size 48 for A and 40 for B, and the output holds the chunk (48,2)
\* with A's two records and the chunk (40,2) with B's two records.
C9_ScenarioAsStated ==
    ScenarioDone =>
        /\ cb_byte_map[ScenarioA].nbytes = 48
        /\ cb_byte_map[ScenarioB].nbytes = 40
        /\ Written \in ScenarioOutputs(48, 40)

\* C9 amended: region size 48 for A and 44 = 8 + 20 + 16 for B, and the
\* output holds the chunk (48,2) with A's two records and the chunk (44,2)
\* with B's two records, the two chunks in either order.
C9_ScenarioLayout ==
    ScenarioDone =>
        /\ cb_byte_map[ScenarioA].nbytes = 48
        /\ cb_byte_map[ScenarioB].nbytes = 44
        /\ Written \in ScenarioOutputs(48, 44)

\* C9 witness: scenario 5 collated, B's cell laid out before A's
C9_Witness == ScenarioDone /\ layout = <<ScenarioB, ScenarioA>>

\* the region of the n-th cell of the layout: [start, end)
RECURSIVE RegionStart(_)
RegionStart(n) ==
    IF n = 1 THEN 0 ELSE RegionStart(n - 1) + cb_byte_map[layout[n - 1]].nbytes
RegionEnd(n) == RegionStart(n) + cb_byte_map[layout[n]].nbytes

LayoutDone == cpc \in {"pass2", "done"}

\* C10: the output buffer has the size of all records plus 8 per distinct
\* barcode and never grows; the regions of the cells tile it; every write of
\* pass 2 lies in the region of its record's barcode, after the header; and
\* when pass 2 is over every cell's cursor is at the end of its region.
C10_WritesStayInRegions ==
    LayoutDone =>
        /\ Len(output_buffer.data) = Len(input) + 8 * Cardinality(DistinctBarcodes)
        /\ Len(output_buffer.data) = total_bytes
        /\ DOMAIN layout = 1 .. Cardinality(DistinctBarcodes)
        /\ {layout[n] : n \in DOMAIN layout} = DistinctBarcodes
        /\ layout # << >> => RegionEnd(Len(layout)) = Len(output_buffer.data)
        /\ \A n \in DOMAIN layout :
              /\ lastw.bc = layout[n] =>
                    /\ RegionStart(n) + header_size <= lastw.from
                    /\ lastw.from <= lastw.to
                    /\ lastw.to <= RegionEnd(n)
              /\ (k = nrec) => cb_byte_map[layout[n]].offset = RegionEnd(n)

\* C10 witness: pass 2 is over, the last write went to the cell that was laid
\* out first of two, and that cell holds two records
C10_Witness ==
    /\ cpc = "pass2"
    /\ k = nrec
    /\ Len(layout) = 2
    /\ lastw.bc = layout[1]
    /\ cb_byte_map[layout[1]].nrec = 2
    /\ lastw.to > lastw.from + 12

\* ------------------------------------------------------------------------
\* Properties of the sharder
\* ------------------------------------------------------------------------

\* the i-th record of the chunk of thread t has a barcode of the correction map
Correctable(t, i) == threads[t].recs[i][1] \in DOMAIN correct_map

\* the number of alignment entries of that record that pass the orientation
\* filter (entry j of the record with UMI u is forward when u + j is odd)
KeptCount(t, i) ==
    Cardinality({j \in 1 .. threads[t].recs[i][2] :
        \/ expected_ori = "Unknown"
        \/ (expected_ori = "Forward") = ((ShardUmi(t, i) + j) % 2 = 1)})

\* the record reaches a bucket: it is correctable, its corrected barcode has
\* a bucket and it keeps an alignment
Routed(t, i) ==
    /\ Correctable(t, i)
    /\ correct_map[threads[t].recs[i][1]] \in DOMAIN bucket_of
    /\ KeptCount(t, i) > 0

TotalBytesWritten ==
    SumOver([b \in BucketIds |-> buckets[b].num_bytes_written], BucketIds)

AllDone == \A t \in DOMAIN threads : threads[t].pc = "done"

\* C11 as stated: when the sharder has processed the chunk, the sum over the
\* buckets of num_bytes_written is the sum of 4 + sizeof(bc) + sizeof(umi) +
\* 4 * na over the input records whose barcode is in the correction map.
C11_BytesOfCorrectableRecords ==
    AllDone =>
        TotalBytesWritten =
            SumOver([i \in 1 .. Len(threads[1].recs) |->
                        IF Correctable(1, i)
                        THEN RecordSize(threads[1].recs[i][2]) ELSE 0],
                    1 .. Len(threads[1].recs))

\* C11 amended: the sum over the buckets of num_bytes_written is the sum of
\* 4 + sizeof(bc) + sizeof(umi) + 4 * kept over the input records that are
\* correctable, whose corrected barcode has a bucket and that keep at least
\* one alignment after the orientation filter, kept being the number of
\* alignments the record keeps.
C11_BytesOfRoutedRecords ==
    AllDone =>
        TotalBytesWritten =
            SumOver([i \in 1 .. Len(threads[1].recs) |->
                        IF Routed(1, i) THEN RecordSize(KeptCount(1, i)) ELSE 0],
                    1 .. Len(threads[1].recs))

\* C11 witness: the chunk is processed; it held a record that lost one of
\* its two alignments to the filter and a record that is not correctable
C11_Witness ==
    /\ AllDone
    /\ Len(threads[1].recs) = 2
    /\ Routed(1, 1) /\ threads[1].recs[1][2] = 2 /\ KeptCount(1, 1) = 1
    /\ ~Correctable(1, 2)
    /\ TotalBytesWritten > 0

\* na of the record at pos, when it is below 256; -1 otherwise
SmallNaAt(bytes, pos) ==
    IF bytes[pos + 2] = 0 /\ bytes[pos + 3] = 0 /\ bytes[pos + 4] = 0
    THEN bytes[pos + 1] ELSE -1

\* bytes, from pos on, is a concatenation of complete encoded records of
\* bucket b: each has at least one alignment, a barcode routed to b, and
\* ends inside bytes
RECURSIVE WholeRecords(_, _, _)
WholeRecords(bytes, pos, b) ==
    IF pos = Len(bytes) THEN TRUE
    ELSE /\ pos + RecordSize(0) <= Len(bytes)
         /\ LET na == SmallNaAt(bytes, pos)
                bc == FromLeBytes(SubSeq(bytes, pos + 5, pos + 4 + bytes_for_type(bct)))
            IN  /\ na >= 1
                /\ pos + RecordSize(na) <= Len(bytes)
                /\ bc \in DOMAIN bucket_of
                /\ bucket_of[bc] = b
                /\ WholeRecords(bytes, pos + RecordSize(na), b)

\* the threads that are writing a flush to bucket b
Flushing(b) ==
    {t \in DOMAIN threads :
        threads[t].pc \in {"flush", "flushed"} /\ threads[t].pend.bucket = b}

\* the bytes of a flush in progress that are in the file of bucket b
InFlight(b) ==
    IF \E t \in Flushing(b) : threads[t].pc = "flushed"
    THEN FlushHead(threads[CHOOSE t \in Flushing(b) : threads[t].pc = "flushed"].bufs[b])
    ELSE << >>

\* C12: with producer threads running the sharder concurrently against the
\* same buckets, in every interleaving the file of a bucket is a
\* concatenation of complete encoded records, followed only by the bytes the
\* holder of the bucket's mutex has written of the flush it is in; a thread
\* writes to the file only while it holds the mutex, one thread at a time.
C12_FlushesNeverInterleave ==
    \A b \in BucketIds :
        LET file == buckets[b].file
            part == InFlight(b)
        IN  /\ \A t \in Flushing(b) : buckets[b].lock = t
            /\ Len(part) <= Len(file)
            /\ SubSeq(file, Len(file) - Len(part) + 1, Len(file)) = part
            /\ WholeRecords(SubSeq(file, 1, Len(file) - Len(part)), 0, b)

\* C12 witness: the file of a bucket holds a record flushed by thread 1 and
\* a record flushed by thread 2
C12_Witness ==
    \E b \in BucketIds :
        /\ buckets[b].lock = 0
        /\ Len(buckets[b].file) = 2 * RecordSize(1)
        /\ \E u1 \in {ShardUmi(1, 1), ShardUmi(1, 2)}, u2 \in {ShardUmi(2, 1), ShardUmi(2, 2)} :
              {buckets[b].file[4 + bytes_for_type(bct) + 1],
               buckets[b].file[RecordSize(1) + 4 + bytes_for_type(bct) + 1]} = {u1, u2}

\* the bytes thread t has consumed from its stream: the position of the file
\* less what the BufReader still holds
Consumed(th) == th.rd.pos - Len(th.rd.buf)

\* the record that thread t reads next is dropped: it is not correctable or
\* the orientation filter removes all its alignments
Dropped(t) ==
    \/ ~Correctable(t, threads[t].done + 1)
    \/ KeptCount(t, threads[t].done + 1) = 0

\* C17: when the sharder reads a record, the reader ends at the start of the
\* next record (4 + sizeof(bc) + sizeof(umi) + 4 * na bytes consumed) in
\* every branch; and when the record's barcode is not in the correction map
\* or the orientation filter removes all its alignments, the iteration is
\* over with every thread-local buffer, every bucket file and every bucket
\* counter unchanged.
C17_DroppedRecordsChangeNothing ==
    [][\A t \in DOMAIN threads :
          (threads[t].pc = "read" /\ threads'[t] # threads[t]) =>
             /\ Consumed(threads'[t]) =
                   Consumed(threads[t]) + RecordSize(threads[t].recs[threads[t].done + 1][2])
             /\ Dropped(t) =>
                   /\ threads'[t].bufs = threads[t].bufs
                   /\ threads'[t].done = threads[t].done + 1
                   /\ threads'[t].pc \in {"read", "done"}
                   /\ buckets' = buckets]_vars

\* C17 witness: the chunk is processed; its first record, with two
\* alignments, was not correctable, its second lost its only alignment to
\* the orientation filter, and nothing was written
C17_Witness ==
    /\ AllDone
    /\ Len(threads[1].recs) = 2
    /\ ~Correctable(1, 1) /\ threads[1].recs[1][2] = 2
    /\ Correctable(1, 2) /\ threads[1].recs[2][2] = 1 /\ KeptCount(1, 2) = 0
    /\ Consumed(threads[1]) = Len(threads[1].file)
    /\ \A b \in BucketIds : buckets[b] = NewBucket

\* ------------------------------------------------------------------------
\* Properties of the workers that share the output writer
\* ------------------------------------------------------------------------

RECURSIVE EmittedBytes(_)
EmittedBytes(es) ==
    IF es = << >> THEN << >> ELSE Head(es).bytes \o EmittedBytes(Tail(es))

\* the workers that are inside write_all on the output writer
Writing == {w \in DOMAIN workers : workers[w].pc \in {"write", "written"}}

\* the bytes of a write in progress that are in the output
WrittenPart ==
    IF \E w \in Writing : workers[w].pc = "written"
    THEN FlushHead(workers[CHOOSE w \in Writing : workers[w].pc = "written"].bytes)
    ELSE << >>

\* C13: with workers emitting concurrently to the same output writer
\* (dump_chunk in process_corrected_cb_chunk, the final write of the two-pass
\* collator), a worker writes only while it holds the writer mutex, and in
\* every interleaving the output is the concatenation of whole emissions,
\* each a chunk header with its records written by one write_all, followed
\* only by the written part of the emission of the holder of the mutex.
C13_EmissionsContiguous ==
    /\ \A w \in Writing : wmutex = w
    /\ wout = EmittedBytes(emitted) \o WrittenPart
    /\ \A n \in 1 .. Len(emitted) :
          /\ ChunksWellFormed(emitted[n].bytes, 0)
          /\ workers[emitted[n].worker].kind = "process" => OneChunk(emitted[n].bytes)

\* C13 witness: a worker waits for the writer mutex while the other worker
\* has written the first part of a chunk with a record
C13_Witness ==
    \E w1, w2 \in DOMAIN workers :
        /\ workers[w1].pc = "written"
        /\ workers[w2].pc = "wlock"
        /\ Len(workers[w1].bytes) > 8
        /\ Len(workers[w2].bytes) > 8


\* ------------------------------------------------------------------------
\* Properties of process_corrected_cb_chunk
\* ------------------------------------------------------------------------

\* the number of alignments of record n of the chunk that pass the
\* orientation filter
KeptOf(n) ==
    Cardinality({j \in 1 .. recs[n].na :
        \/ expected_ori = "Unknown"
        \/ (expected_ori = "Forward") = ((n + j) % 2 = 1)})

\* record n of the chunk is correctable to the corrected barcode id
CorrectsTo(n, id) ==
    recs[n].bc \in DOMAIN correct_map /\ correct_map[recs[n].bc] = id

\* C14: in every iteration of the loop of process_corrected_cb_chunk, each
\* entry of the output cache has remaining_records lowered by one exactly when
\* the record read is correctable to its barcode (also when the filter has
\* emptied the record); dump_chunk writes the entry to the output exactly
\* when that brings remaining_records to zero (also when the record is
\* empty); a record emptied by the filter leaves nrec and the length of the
\* buffer of its entry as they were.
C14_CountdownAndDump ==
    [][(cpc = "process" /\ k' = k + 1) =>
         /\ DOMAIN output_cache' = DOMAIN output_cache
         /\ \A id \in DOMAIN output_cache :
              LET v == output_cache[id]
                  w == output_cache'[id]
                  hit == CorrectsTo(k + 1, id)
              IN  /\ w.remaining_records =
                         v.remaining_records - (IF hit THEN 1 ELSE 0)
                  /\ (hit /\ KeptOf(k + 1) = 0) =>
                         /\ w.nrec = v.nrec
                         /\ Len(w.data.data) = Len(v.data.data)
                  /\ (hit /\ KeptOf(k + 1) > 0) =>
                         /\ w.nrec = v.nrec + 1
                         /\ Len(w.data.data) > Len(v.data.data)
                  /\ ~hit => w = v
                  /\ (hit /\ w.remaining_records = 0) =>
                         /\ Len(owriter') = Len(owriter) + 1
                         /\ owriter'[Len(owriter')].bytes = w.data.data
                         /\ FromLeBytes(SubSeq(w.data.data, 5, 8)) = w.nrec
         /\ (~ \E id \in DOMAIN output_cache :
                 CorrectsTo(k + 1, id) /\ output_cache'[id].remaining_records = 0)
               => owriter' = owriter]_vars

\* the record that brings an entry to zero was emptied by the filter and
\* the entry was written with the one record it held
C14_Witness ==
    /\ cpc = "process"
    /\ k = 2
    /\ CorrectsTo(1, 1) /\ CorrectsTo(2, 1)
    /\ KeptOf(1) > 0 /\ KeptOf(2) = 0
    /\ output_cache[1].remaining_records = 0
    /\ output_cache[1].nrec = 1
    /\ Len(owriter) = 1


\* ------------------------------------------------------------------------
\* Properties of the record decoders
\* ------------------------------------------------------------------------

\* the call is one of the decoders that filter by orientation
KeepOriCall == call.fn \in {"from_bytes_keep_ori", "from_bytes_with_header_keep_ori"}

\* the entry a of a wire record passes the filter of the expected orientation
Passes(ori, a) ==
    \/ ori = "Unknown"
    \/ ori = "Forward" /\ a.fw
    \/ ori = "Reverse" /\ ~a.fw

\* the number of positions of the sequence s that hold x
CountIn(s, x) == Cardinality({i \in 1 .. Len(s) : s[i] = x})

\* C15: from_bytes_keep_ori and from_bytes_with_header_keep_ori return refs
\* ascending, holding each reference id as many times as the wire record has
\* entries with that id (low 31 bits) that pass the filter: top bit set for
\* Forward, clear for Reverse, every entry for Unknown.
C15_KeepOriRefs ==
    KeepOriCall =>
        LET refs == call.ret.refs
            alns == call.arg.alns
        IN  /\ \A i \in 1 .. Len(refs) - 1 : refs[i] <= refs[i + 1]
            /\ \A x \in CodecRefIds \cup {refs[i] : i \in 1 .. Len(refs)} :
                  CountIn(refs, x) =
                      Cardinality({j \in 1 .. Len(alns) :
                          alns[j].id = x /\ Passes(call.arg.ori, alns[j])})

\* a Forward call on a record whose entries are out of order, one of them
\* reverse and one id twice forward: the duplicate is kept, in order
C15_Witness ==
    /\ call.fn = "from_bytes_keep_ori"
    /\ call.arg.ori = "Forward"
    /\ call.arg.alns = <<[id |-> 258, fw |-> TRUE], [id |-> 1, fw |-> FALSE],
                         [id |-> 258, fw |-> TRUE]>>
    /\ call.ret.refs = <<258, 258>>

\* the call is one of the record decoders
DecoderCall ==
    call.fn \in {"from_bytes", "from_bytes_keep_ori", "from_bytes_with_header_keep_ori"}

\* C16: every record of a decoder has dirs and refs of the same length, and
\* dirs[i] is the strand flag of an entry of the wire record whose reference
\* id is refs[i].
C16_ParallelArrays ==
    DecoderCall =>
        LET rec == call.ret
            alns == call.arg.alns
        IN  /\ Len(rec.dirs) = Len(rec.refs)
            /\ \A i \in 1 .. Len(rec.refs) :
                  \E j \in 1 .. Len(alns) :
                      alns[j].id = rec.refs[i] /\ alns[j].fw = rec.dirs[i]


\* ------------------------------------------------------------------------
\* Properties of the header, tag section and chunk decoders
\* ------------------------------------------------------------------------

\* the value serialized holds Strings: every name is UTF-8
ValidNames ==
    CASE call.arg.kind = "header" ->
             \A i \in 1 .. Len(call.arg.x.ref_names) : Utf8Valid(call.arg.x.ref_names[i])
      [] call.arg.kind = "tags" ->
             \A i \in 1 .. Len(call.arg.x.tags) : Utf8Valid(call.arg.x.tags[i].name)
      [] OTHER -> TRUE

\* the serialized form of a value of the kind of the call
Reserialized(v) ==
    CASE call.arg.kind = "header" -> EncodeRadHeader(v)
      [] call.arg.kind = "tags" -> EncodeTagSection(v)
      [] call.arg.kind = "chunk" -> EncodeChunk(v, call.arg.bct, call.arg.umit)

\* the call decoded the serialized value to the original fields, and
\* serializing the result gives the original bytes
RoundTrips ==
    /\ call.ret.outcome = "ok"
    /\ call.ret.v = call.arg.x
    /\ Reserialized(call.ret.v) = Reserialized(call.arg.x)

\* C18: decoding the serialized form of a RadHeader, a TagSection or a Chunk
\* gives the original fields, and serializing the result gives the original
\* bytes.
C18_RoundTrip ==
    (call.fn \in {"RadHeader_from_bytes", "TagSection_from_bytes", "Chunk_from_bytes"}
        /\ ValidNames) => RoundTrips

\* C19: RadHeader::from_bytes on a header with a reference name that is not
\* UTF-8 returns the error MalformedHeader.
C19_InvalidNameIsMalformedHeader ==
    (call.fn = "RadHeader_from_bytes" /\ ~ValidNames) =>
        call.ret.outcome = "MalformedHeader"


\* ------------------------------------------------------------------------
\* Properties of RadIntId::write_to and read_into_u64
\* ------------------------------------------------------------------------

\* v mod 2^(8 * n) for the values of the model, all below 2^31: a width of
\* four bytes or more holds them whole
LowBytes(v, n) == IF n >= 4 THEN v ELSE v % Pow(256, n)

\* byte j (from 1, lowest first) of the little-endian form of a value
\* below 2^31
LeByte(v, j) == IF j > 4 THEN 0 ELSE (v \div Pow(256, j - 1)) % 256

\* C20: for every type w and value v, write_to writes bytes_for_type(w)
\* bytes, the little-endian form of v mod 2^(8 * bytes_for_type(w)), and
\* read_into_u64 reads that value back, zero-extended.
C20_WriteReadTruncates ==
    call.fn = "write_read" =>
        LET n == bytes_for_type(call.arg.w)
            t == LowBytes(call.arg.v, n)
        IN  /\ Len(call.ret.bytes) = n
            /\ \A j \in 1 .. n : call.ret.bytes[j] = LeByte(t, j)
            /\ call.ret.v = t

\* 65537 written as U16 is cut to its low two bytes and reads back as 1
C20_Witness ==
    /\ call.fn = "write_read"
    /\ call.arg.w = "U16"
    /\ call.arg.v = 65537
    /\ call.ret.bytes = <<1, 0>>
    /\ call.ret.v = 1


\* ------------------------------------------------------------------------
\* Properties of the thread-local cursors of the sharder
\* ------------------------------------------------------------------------

\* thread t has just written a record to the cursor of a bucket
JustAppended(t) == threads[t].pc = "count"

\* C21: after every record append the position of the thread-local cursor
\* written to is below flush_limit, whatever the size of the record.
C21_CursorBelowFlushLimit ==
    \A t \in DOMAIN threads :
        JustAppended(t) => Len(threads[t].bufs[threads[t].pend.bucket]) < flush_limit


\* no thread is between the read of a record and the end of its append
NoAppendInProgress ==
    \A t \in DOMAIN threads : threads[t].pc \in {"start", "read", "done"}

\* the sum of the positions of the cursors of all threads for bucket b
LocalBytes(b) ==
    SumOver([t \in DOMAIN threads |-> Len(threads[t].bufs[b])], DOMAIN threads)

\* C22: whenever no thread is in the middle of an append, and so when the
\* sharder has returned, num_bytes_written of every bucket is the number of
\* bytes flushed to its file plus the positions of all threads' cursors for
\* it.
C22_CountedBytesAreFlushedOrLocal ==
    NoAppendInProgress =>
        \A b \in DOMAIN buckets :
            buckets[b].num_bytes_written = Len(buckets[b].file) + LocalBytes(b)

\* both threads have returned; bucket 0 has flushed bytes in its file and
\* counted bytes that are still in the cursors of both threads
C22_Witness ==
    /\ DOMAIN threads = {1, 2}
    /\ AllDone
    /\ Len(buckets[0].file) > 0
    /\ Len(threads[1].bufs[0]) > 0
    /\ Len(threads[2].bufs[0]) > 0


\* ------------------------------------------------------------------------
\* Locks and completion of concurrent workers
\* ------------------------------------------------------------------------

\* the entries of the output cache that worker w holds
EntriesHeld(w) == {id \in DOMAIN ecache : ecache[id].lock = w}

\* the bucket mutexes that thread t holds
BucketsHeld(t) == {b \in DOMAIN buckets : buckets[b].lock = t}

\* A worker holds at most one entry of the output cache; in
\* process_corrected_cb_chunk it takes the writer mutex only while it holds
\* the entry it dumps, and it waits for an entry only while it holds nothing.
\* A thread of the sharder holds at most one bucket mutex and waits for one
\* only while it holds none.
LocksInOrder ==
    /\ \A w \in DOMAIN workers :
          /\ Cardinality(EntriesHeld(w)) <= 1
          /\ (workers[w].pc = "wlock" \/ wmutex = w) =>
                IF workers[w].kind = "process"
                THEN EntriesHeld(w) = {workers[w].pend.id}
                ELSE EntriesHeld(w) = {}
          /\ workers[w].pc = "entry" => (EntriesHeld(w) = {} /\ wmutex # w)
    /\ \A t \in DOMAIN threads :
          /\ Cardinality(BucketsHeld(t)) <= 1
          /\ threads[t].pc = "lock" => BucketsHeld(t) = {}

\* every worker and every thread has run to completion, with no lock held
AllCompleted ==
    /\ \A w \in DOMAIN workers : workers[w].pc = "done"
    /\ \A t \in DOMAIN threads : threads[t].pc = "done"
    /\ wmutex = 0
    /\ \A id \in DOMAIN ecache : ecache[id].lock = 0
    /\ \A b \in DOMAIN buckets : buckets[b].lock = 0

\* a worker or a thread steps only from a state in which it can step
StepsOnlyWhenAble ==
    [][\A i \in ConcIds : /\ WorkerStep(i) => WorkerCanStep(i)
                          /\ ThreadStep(i) => ThreadCanStep(i)]_vars

\* C23: under fair scheduling every worker of process_corrected_cb_chunk and
\* every thread of the sharder runs to completion; a worker takes the entry
\* of the output cache and then the writer mutex, a thread one bucket mutex
\* at a time, so no interleaving ends in a deadlock.
C23_WorkersRunToCompletion == [] LocksInOrder /\ <>[] AllCompleted

\* worker 1 holds the entry it dumps and waits for the writer mutex, which
\* worker 2 holds
C23_Witness ==
    /\ DOMAIN workers = {1, 2}
    /\ workers[1].pc = "wlock"
    /\ EntriesHeld(1) # {}
    /\ wmutex = 2


\* ------------------------------------------------------------------------
\* Properties of RadHeader::get_size
\* ------------------------------------------------------------------------

\* the length of the serialized header: the flag, the count, for every name
\* its two-byte length and its bytes, the number of chunks
HeaderLength(h) == 1 + 8 + (2 * Len(h.ref_names) + NameLens(h.ref_names)) + 8

\* RadHeader::from_bytes consumes exactly the serialized header
ConsumedIsHeaderLength ==
    call.fn = "get_size" => BytesConsumed(call.ret.rd) = HeaderLength(call.ret.v)

\* get_size counts the names without their length prefixes: it falls short
\* of the bytes consumed by two bytes for every name
GetSizeShortByPrefixes ==
    call.fn = "get_size" =>
        call.ret.size + 2 * Len(call.ret.v.ref_names) = BytesConsumed(call.ret.rd)

\* C24: for every header h that RadHeader::from_bytes returns, h.get_size()
\* equals the number of bytes that from_bytes consumed.
C24_GetSizeIsBytesConsumed ==
    call.fn = "get_size" => call.ret.size = BytesConsumed(call.ret.rd)

====
